---- MODULE Spec2Model ----
(***************************************************************************)
(* Step-run execution core of zenml: StepRunner.run and the metadata it    *)
(* reconciles (step runs, artifact versions, model versions, run links).   *)
(***************************************************************************)
EXTENDS Integers, Sequences, FiniteSets, Bags, TLC

\* ------------------------------------------------------------------ bounds
MaxExecs == 2        \* executions of StepRunner.run, one after another, in one process
MaxOutputs == 2      \* declared outputs of a step
MaxLinkExecs == 4    \* step executions of the model-linking scenarios
MaxRuns == 2         \* pipeline runs
NumConc == 2         \* steps of one pipeline run executing concurrently
MaxUsers == 2        \* users, and teams, of the store

Max(a, b) == IF a >= b THEN a ELSE b
Execs == 1..Max(MaxExecs, Max(MaxLinkExecs, NumConc))
Procs == Execs
Runs == 1..MaxRuns

SeqsUpTo(S, n) == UNION {[1..k -> S] : k \in 0..n}

\* ------------------------------------------------------------------ values
\* A runtime value is known by its type; a list/tuple also by its items' types.
ScalarTypes == {"int", "str"}
None == [type |-> "NoneType", items |-> <<>>]
Scalar(t) == [type |-> t, items |-> <<>>]
Tuple(s) == [type |-> "tuple", items |-> s]
ReturnValues ==
    {None} \cup {Scalar(t) : t \in ScalarTypes}
           \cup {Tuple(s) : s \in SeqsUpTo(ScalarTypes, MaxOutputs + 1)}

\* What the user's entrypoint does when called: raise, or return a value.
Raises == [raises |-> TRUE, value |-> None]
Returns(v) == [raises |-> FALSE, value |-> v]
Behaviours == {Raises} \cup {Returns(v) : v \in ReturnValues}

\* ------------------------------------------------------------------ models
NoModel == [name |-> "none", version |-> "none", number |-> 0]
ModelNames == {"foo"}
NewVersion(m) == [name |-> m, version |-> "new", number |-> 0]
Latest(m) == [name |-> m, version |-> "latest", number |-> 0]
Numbered(m, n) == [name |-> m, version |-> "number", number |-> n]
Production(m) == [name |-> m, version |-> "production", number |-> 0]
ModelRefs == {NewVersion(m) : m \in ModelNames} \cup {Latest(m) : m \in ModelNames}

\* ------------------------------------------------------------------ step configuration
\* ArtifactConfig: `name` is "" when no custom name is configured.
NoArtifactConfig == [present |-> FALSE, model |-> NoModel, name |-> ""]
ArtifactConfig(m) == [present |-> TRUE, model |-> m, name |-> ""]
NamedArtifactConfig(n) == [present |-> TRUE, model |-> NoModel, name |-> n]
OutputSignature(t, ac) == [resolved_annotation |-> t, artifact_config |-> ac]

\* An entrypoint argument: its annotation, the input artifact of its name
\* ("none" when there is none) and whether a parameter of its name exists.
Arg(ann, art, par) == [annotation |-> ann, artifact |-> art, parameter |-> par]

\* The configuration of an output: the materializer classes it declares, in
\* order, and its default materializer ("none": none).
OutputConfig(ms, d) == [materializer_source |-> ms, default_materializer_source |-> d]
NoOutputConfig == OutputConfig(<<>>, "none")

\* pipeline_run.pipeline: None for a run that has no pipeline.
NoPipeline == [present |-> FALSE, name |-> ""]
Pipeline(name) == [present |-> TRUE, name |-> name]

\* A setting of the step, and of its pipeline: None, True or False.
Setting(on_step, on_pipeline) == [step |-> on_step, pipeline |-> on_pipeline]
Unset == Setting("None", "None")
SettingValues == {"None", "True", "False"}

NoCfg ==
    [outputs |-> <<>>, args |-> <<>>, entrypoint |-> Raises,
     failure_hook_source |-> FALSE, success_hook_source |-> FALSE,
     model |-> NoModel, pipeline_model |-> NoModel,
     external_input_artifacts |-> {}, pipeline_run |-> 0, process |-> 0,
     output_config |-> <<>>, pipeline |-> NoPipeline, name |-> "",
     disable_step_logs_storage |-> FALSE, enable_step_logs |-> Unset,
     enable_cache |-> Unset, enable_artifact_metadata |-> Unset,
     enable_artifact_visualization |-> Unset]

\* The settings run evaluates, before it has evaluated them.
NoFlags ==
    [step_logging_enabled |-> FALSE, cache_enabled |-> FALSE,
     artifact_metadata_enabled |-> FALSE, artifact_visualization_enabled |-> FALSE]

HookOutcomes ==
    {"ok", "load_error", "bind_error", "raises_Exception", "raises_BaseException"}

\* ------------------------------------------------------------------ pure functions
\* StepRunner.load_and_run_hook: loading the hook, binding its arguments and
\* calling it sit in one try block whose handler is `except Exception`.
\* The result is the exception that leaves load_and_run_hook ("none": none).
load_and_run_hook(outcome) ==
    IF outcome = "raises_BaseException" THEN "HookBaseException" ELSE "none"

\* _parse_inputs looking for a parameter before an input artifact.
ParameterBeforeArtifact(a) ==
    IF a.annotation = "StepContext" THEN "context"
    ELSE IF a.parameter THEN "parameter"
    ELSE IF a.artifact # "none"
         THEN (IF a.artifact = "incompatible" THEN "incompatible" ELSE "artifact")
    ELSE "missing"

\* StepRunner._parse_inputs, one argument: where its value comes from.
ArgSource(a) ==
    IF a.annotation = "StepContext" THEN "context"
    ELSE IF a.artifact # "none"
         THEN (IF a.artifact = "incompatible" THEN "incompatible" ELSE "artifact")
    ELSE IF a.parameter THEN "parameter"
    ELSE "missing"

\* _parse_inputs passing None for what it cannot resolve.
ParseInputsLeniently(args) ==
    [error |-> "none", function_params |-> [i \in 1..Len(args) |-> ArgSource(args[i])]]

\* StepRunner._parse_inputs: the arguments in order; the first one that cannot
\* be given a value raises.
_parse_inputs(args) ==
    LET src == [i \in 1..Len(args) |-> ArgSource(args[i])]
        bad == {i \in 1..Len(args) : src[i] \in {"incompatible", "missing"}}
        first == CHOOSE i \in bad : \A j \in bad : i <= j
    IN  IF bad = {}
        THEN [error |-> "none", function_params |-> src]
        ELSE [error |-> IF src[first] = "missing" THEN "RuntimeError" ELSE "TypeError",
              function_params |-> <<>>]

\* isinstance(return_value, output_type), `Any` accepting everything.
IsInstance(t, output_type) == output_type = "Any" \/ t = output_type

\* _validate_outputs pairing values and annotations with zip alone: no check
\* that several outputs come as a sequence of the declared length.
ValidateOutputsZipped(return_values, output_annotations) ==
    LET n == Len(output_annotations)
        values == IF n = 1 THEN <<return_values.type>> ELSE return_values.items
        m == IF Len(values) < n THEN Len(values) ELSE n
    IN  IF n = 0
        THEN [error |-> return_values # None, outputs |-> <<>>]
        ELSE [error |-> \E i \in 1..m :
                           ~IsInstance(values[i], output_annotations[i].resolved_annotation),
              outputs |-> SubSeq(values, 1, m)]

\* _validate_outputs ignoring what a step without outputs returns.
ValidateOutputsIgnoringUnexpected(return_values, output_annotations) ==
    LET n == Len(output_annotations)
        values == IF n = 1 THEN <<return_values.type>> ELSE return_values.items
    IN  IF n = 0 THEN [error |-> FALSE, outputs |-> <<>>]
        ELSE IF n > 1 /\ (return_values.type # "tuple" \/ Len(values) # n)
             THEN [error |-> TRUE, outputs |-> <<>>]
        ELSE [error |-> \E i \in 1..n :
                           ~IsInstance(values[i], output_annotations[i].resolved_annotation),
              outputs |-> values]

\* _validate_outputs checking the type of the first output only.
ValidateFirstOutputOnly(return_values, output_annotations) ==
    LET n == Len(output_annotations)
        values == IF n = 1 THEN <<return_values.type>> ELSE return_values.items
    IN  IF n = 0 THEN [error |-> return_values # None, outputs |-> <<>>]
        ELSE IF n > 1 /\ (return_values.type # "tuple" \/ Len(values) # n)
             THEN [error |-> TRUE, outputs |-> <<>>]
        ELSE [error |-> ~IsInstance(values[1], output_annotations[1].resolved_annotation),
              outputs |-> values]

\* _validate_outputs taking the return value of a step with one output for a
\* sequence of one value, as it does for a step with several outputs.
ValidateWithoutWrapping(return_values, output_annotations) ==
    LET n == Len(output_annotations)
        StepInterfaceError == [error |-> TRUE, outputs |-> <<>>]
    IN  IF n = 0
        THEN (IF return_values # None THEN StepInterfaceError
              ELSE [error |-> FALSE, outputs |-> <<>>])
        ELSE LET is_sequence == return_values.type = "tuple"
                 values == return_values.items
             IN  IF ~is_sequence THEN StepInterfaceError
                 ELSE IF n # Len(values) THEN StepInterfaceError
                 ELSE IF \E i \in 1..n :
                            ~IsInstance(values[i], output_annotations[i].resolved_annotation)
                      THEN StepInterfaceError
                 ELSE [error |-> FALSE, outputs |-> values]

\* StepRunner._validate_outputs: the validated values (by their types), in the
\* order of the output annotations, or a StepInterfaceError.
_validate_outputs(return_values, output_annotations) ==
    LET n == Len(output_annotations)
        StepInterfaceError == [error |-> TRUE, outputs |-> <<>>]
    IN  IF n = 0
        THEN (IF return_values # None THEN StepInterfaceError
              ELSE [error |-> FALSE, outputs |-> <<>>])
        ELSE LET wrapped == n = 1
                 is_sequence == wrapped \/ return_values.type = "tuple"
                 values == IF wrapped THEN <<return_values.type>>
                           ELSE return_values.items
             IN  IF ~is_sequence THEN StepInterfaceError
                 ELSE IF n # Len(values) THEN StepInterfaceError
                 ELSE IF \E i \in 1..n :
                            ~IsInstance(values[i], output_annotations[i].resolved_annotation)
                      THEN StepInterfaceError
                 ELSE [error |-> FALSE, outputs |-> values]

\* is_setting_enabled: the setting of the step if it is set, else the
\* setting of the pipeline if it is set, else enabled.
is_setting_enabled(is_enabled_on_step, is_enabled_on_pipeline) ==
    IF is_enabled_on_step # "None" THEN is_enabled_on_step = "True"
    ELSE IF is_enabled_on_pipeline # "None" THEN is_enabled_on_pipeline = "True"
    ELSE TRUE

\* `step_logging_enabled` of run: ZENML_DISABLE_STEP_LOGS_STORAGE switches the
\* storage of step logs off whatever the settings say.
StepLoggingEnabled(c) ==
    IF c.disable_step_logs_storage THEN FALSE
    ELSE is_setting_enabled(c.enable_step_logs.step, c.enable_step_logs.pipeline)

\* ------------------------------------------------------------------ materializers
\* A materializer class is known by its name and the types it handles.
DefaultMaterializer == "CloudpickleMaterializer"
Materializers ==
    {"IntMaterializer", "BuiltInMaterializer", "CustomMaterializer",
     "OtherMaterializer", DefaultMaterializer}
Handles(materializer, data_type) ==
    CASE materializer = "IntMaterializer" -> data_type = "int"
      [] materializer = "BuiltInMaterializer" -> data_type \in {"int", "str"}
      [] materializer = "CustomMaterializer" -> data_type = "Custom"
      [] materializer = "OtherMaterializer" -> data_type = "Custom"
      [] OTHER -> TRUE

\* select_materializer preferring the class declared last.
SelectLastMaterializer(data_type, materializer_classes) ==
    LET handling == {i \in 1..Len(materializer_classes) :
                        Handles(materializer_classes[i], data_type)}
    IN  IF handling = {} THEN "none"
        ELSE materializer_classes[CHOOSE i \in handling : \A j \in handling : i >= j]

\* materializer_utils.select_materializer: the first of the declared classes
\* that handles the type ("none", a RuntimeError, when none of them does).
select_materializer(data_type, materializer_classes) ==
    LET handling == {i \in 1..Len(materializer_classes) :
                        Handles(materializer_classes[i], data_type)}
    IN  IF handling = {} THEN "none"
        ELSE materializer_classes[CHOOSE i \in handling : \A j \in handling : i <= j]

\* materializer_registry[data_type]: the materializer registered for exactly
\* this type, else the registry's default materializer.
materializer_registry(default, data_type) ==
    IF data_type \in {"int", "str"} THEN "BuiltInMaterializer" ELSE default

\* _store_output_artifacts, the choice of the materializer of one output: the
\* registry's default afterwards, and the materializer chosen.
ChooseMaterializer(data_type, output_config, default) ==
    IF output_config.materializer_source # <<>>
    THEN [default_materializer |-> default,
          materializer_class |->
              select_materializer(data_type, output_config.materializer_source)]
    ELSE LET d == IF output_config.default_materializer_source # "none"
                  THEN output_config.default_materializer_source
                  ELSE default
         IN  [default_materializer |-> d,
              materializer_class |-> materializer_registry(d, data_type)]

\* ------------------------------------------------------------------ artifact names
\* The key of the output in output_annotations: the custom name of its
\* artifact config when it has one, else the name the annotation declares
\* ("output" for one output, "output_0", "output_1", ... for several).
OutputName(outputs, i) ==
    IF outputs[i].artifact_config.present /\ outputs[i].artifact_config.name # ""
    THEN outputs[i].artifact_config.name
    ELSE IF Len(outputs) = 1 THEN "output" ELSE "output_" \o ToString(i - 1)

has_custom_name(artifact_config) == artifact_config.present /\ artifact_config.name # ""

\* `artifact_name` of _store_output_artifacts for output i.
artifact_name(pipeline, step_name, outputs, i) ==
    IF has_custom_name(outputs[i].artifact_config)
    THEN OutputName(outputs, i)
    ELSE LET pipeline_name == IF pipeline.present THEN pipeline.name ELSE "unlisted"
         IN  pipeline_name \o "::" \o step_name \o "::" \o OutputName(outputs, i)

\* ------------------------------------------------------------------ state
VARIABLES
    pc,                \* [Execs -> position of the execution of StepRunner.run]
    cfg,               \* [Execs -> the step's configuration and run's arguments]
    step_failed,       \* [Execs -> the local flag of run]
    exc,               \* [Execs -> the exception in flight, or that left run]
    return_values,     \* [Execs -> what the entrypoint returned]
    output_artifacts,  \* [Execs -> ids of the outputs stored so far, in order]
    resolved,          \* [Execs -> the model-version resolutions made by run: {[ref, mv]}]
    trace,             \* [Execs -> the calls made to user code and to the stack]
    stepContext,       \* [Procs -> step run of the live StepContext, 0: none]
    artifact_versions, \* the store's artifact versions: {[step_run, output]}
    step_runs,         \* [Execs -> the store's StepRun record]
    artifact_links,    \* the store's model version <-> artifact version links
    model_versions,    \* the store's model versions
    run_links,         \* the store's run <-> model version links (a bag)
    stages,            \* the store's stage of the model versions that have one
    pipeline_runs,     \* the store's pipeline runs
    artifact_tags,     \* the store's tags of the artifact versions
    materializers,     \* the store's materializer of each artifact version
    default_materializer, \* [Procs -> materializer_registry.default_materializer]
    flags,             \* [Execs -> the settings run has evaluated]
    artifact_names,    \* the store's logical name of each artifact version
    artifacts,         \* the store's artifacts (name lineages)
    run_context,       \* the PipelineRunContext of the test: what it tracks
    written,           \* the artifact store: outputs a materializer has written
    users,             \* the store's users
    call,              \* the call of a model's classmethod or validator
    result             \* what that call returned or raised

vars == <<pc, cfg, step_failed, exc, return_values, output_artifacts, resolved,
          trace, stepContext, artifact_versions, artifact_links, step_runs,
          model_versions, run_links, stages, pipeline_runs, artifact_tags,
          materializers, default_materializer, flags, artifact_names,
          artifacts, run_context, written, users, call, result>>

locals == <<cfg, step_failed, exc, return_values, output_artifacts, resolved, trace>>
store == <<artifact_versions, artifact_links, step_runs, model_versions, run_links>>

\* ------------------------------------------------------------------ store (model versions, links)
VersionsOf(mvs, m) == {v \in mvs : v.model = m}
LatestOf(mvs, m) ==
    CHOOSE v \in VersionsOf(mvs, m) : \A w \in VersionsOf(mvs, m) : w.number <= v.number
\* Numbering that starts again with each version.
FirstNumber(mvs, m) == 1
NextNumber(mvs, m) ==
    IF VersionsOf(mvs, m) = {} THEN 1 ELSE LatestOf(mvs, m).number + 1

\* The stage a model version carries, and the version of a model that
\* carries a stage: a stage is carried by one version of a model at a time.
Staged(v, stage) == [model_version |-> v, stage |-> stage]
InStage(mvs, m, stage) == {v \in VersionsOf(mvs, m) : Staged(v, stage) \in stages}
StagedVersion(mvs, m, stage) == CHOOSE v \in InStage(mvs, m, stage) : TRUE

\* Model._get_or_create_model_version against the store: one atomic
\* get-or-create. A reference that names no version asks for a new one, which
\* is created once per (pipeline run, model name) and reused afterwards; the
\* alias "latest" resolves to the most recent version, and a stage to the
\* version that carries it, at the time of the call; a version referred to by
\* its number is that version.
AlwaysCreateModelVersion(ref, run, mvs) ==
    IF \E v \in VersionsOf(mvs, ref.name) : ref.version = "number" /\ v.number = ref.number
    THEN CHOOSE v \in VersionsOf(mvs, ref.name) : v.number = ref.number
    ELSE IF ref.version = "production" /\ InStage(mvs, ref.name, "production") # {}
    THEN StagedVersion(mvs, ref.name, "production")
    ELSE IF ref.version = "new" \/ VersionsOf(mvs, ref.name) = {}
    THEN [model |-> ref.name, number |-> NextNumber(mvs, ref.name), run |-> run]
    ELSE LatestOf(mvs, ref.name)
\* A stage taken for the alias of the most recent version.
ResolveStageAsLatest(ref, run, mvs) ==
    IF \E v \in VersionsOf(mvs, ref.name) : ref.version = "number" /\ v.number = ref.number
    THEN CHOOSE v \in VersionsOf(mvs, ref.name) : v.number = ref.number
    ELSE IF ref.version = "new" \/ VersionsOf(mvs, ref.name) = {}
    THEN IF \E v \in mvs : v.model = ref.name /\ v.run = run
         THEN CHOOSE v \in mvs : v.model = ref.name /\ v.run = run
         ELSE [model |-> ref.name, number |-> NextNumber(mvs, ref.name), run |-> run]
    ELSE LatestOf(mvs, ref.name)
_get_or_create_model_version(ref, run, mvs) ==
    IF \E v \in VersionsOf(mvs, ref.name) : ref.version = "number" /\ v.number = ref.number
    THEN CHOOSE v \in VersionsOf(mvs, ref.name) : v.number = ref.number
    ELSE IF ref.version = "production" /\ InStage(mvs, ref.name, "production") # {}
    THEN StagedVersion(mvs, ref.name, "production")
    ELSE IF ref.version = "new" \/ VersionsOf(mvs, ref.name) = {}
    THEN IF \E v \in mvs : v.model = ref.name /\ v.run = run
         THEN CHOOSE v \in mvs : v.model = ref.name /\ v.run = run
         ELSE [model |-> ref.name, number |-> NextNumber(mvs, ref.name), run |-> run]
    ELSE LatestOf(mvs, ref.name)

\* ZenStore.create_model_version_pipeline_run_link: a link that exists is
\* left alone. The links are a bag, so a duplicate would be seen.
RunLink(run, mv) == [pipeline_run |-> run, model_version |-> mv]
AlwaysAddRunLink(links, run, mv) == links (+) SetToBag({RunLink(run, mv)})
create_model_version_pipeline_run_link(links, run, mv) ==
    IF BagIn(RunLink(run, mv), links) THEN links
    ELSE links (+) SetToBag({RunLink(run, mv)})

\* `for model in models: create_model_version_pipeline_run_link(...)`
RECURSIVE LinkRunToModels(_, _, _)
LinkRunToModels(links, run, models) ==
    IF models = {} THEN links
    ELSE LET mv == CHOOSE x \in models : TRUE
         IN  LinkRunToModels(create_model_version_pipeline_run_link(links, run, mv),
                             run, models \ {mv})

\* StepContext.model with the precedence turned round.
PipelineModelFirst(step_model, pipeline_model) ==
    IF pipeline_model # NoModel THEN pipeline_model ELSE step_model

\* StepContext.model: the model the step declares, else the model of its
\* pipeline (StepContextError, here NoModel, when there is neither).
StepContextModel(step_model, pipeline_model) ==
    IF step_model # NoModel THEN step_model ELSE pipeline_model

\* ArtifactConfig._model: the model the output's artifact config names, else
\* the model of the step context (None when there is neither).
ArtifactConfigModel(ac, context_model) ==
    IF ac.model # NoModel /\ (context_model = NoModel \/ context_model.name # ac.model.name)
    THEN ac.model
    ELSE context_model

\* link_step_artifacts_to_model keeping one artifact version per output name.
ArtifactLink(mv, name, artifact) == [model_version |-> mv, name |-> name, artifact |-> artifact]
RECURSIVE LinkLatestArtifactOnly(_, _, _, _, _, _)
LinkLatestArtifactOnly(i, outputs, artifact_version_ids, context_model, run, acc) ==
    IF i > Len(outputs) THEN acc
    ELSE LET artifact_config == outputs[i].artifact_config
             model == IF artifact_config.present
                      THEN ArtifactConfigModel(artifact_config, context_model)
                      ELSE context_model
         IN  IF model = NoModel
             THEN LinkLatestArtifactOnly(i + 1, outputs, artifact_version_ids,
                                         context_model, run, acc)
             ELSE LET mv == _get_or_create_model_version(model, run, acc.mvs)
                  IN  LinkLatestArtifactOnly(
                          i + 1, outputs, artifact_version_ids, context_model, run,
                          [links |-> {l \in acc.links : l.model_version # mv \/ l.name # i}
                                         \cup {ArtifactLink(mv, i, artifact_version_ids[i])},
                           mvs |-> acc.mvs \cup {mv}])

\* link_step_artifacts_to_model: each stored output is linked, under its name
\* (here its position), to the version of the model of its artifact config,
\* or of the model of the step context when it has no artifact config; with
\* no model there is no link. acc carries the store's links and model
\* versions.
RECURSIVE link_step_artifacts_to_model(_, _, _, _, _, _)
link_step_artifacts_to_model(i, outputs, artifact_version_ids, context_model, run, acc) ==
    IF i > Len(outputs) THEN acc
    ELSE LET artifact_config == outputs[i].artifact_config
             model == IF artifact_config.present
                      THEN ArtifactConfigModel(artifact_config, context_model)
                      ELSE context_model
         IN  IF model = NoModel
             THEN link_step_artifacts_to_model(i + 1, outputs, artifact_version_ids,
                                               context_model, run, acc)
             ELSE LET mv == _get_or_create_model_version(model, run, acc.mvs)
                  IN  link_step_artifacts_to_model(
                          i + 1, outputs, artifact_version_ids, context_model, run,
                          [links |-> acc.links
                                         \cup {ArtifactLink(mv, i, artifact_version_ids[i])},
                           mvs |-> acc.mvs \cup {mv}])

\* StepRunner._get_model_versions_from_artifacts: the loop over the names of
\* the published outputs, from output i on. acc carries the set built so far,
\* the store's model versions and the resolutions made.
RECURSIVE _get_model_versions_from_artifacts(_, _, _, _, _)
_get_model_versions_from_artifacts(i, outputs, context_model, run, acc) ==
    IF i > Len(outputs) THEN acc
    ELSE LET artifact_config == outputs[i].artifact_config
         IN  IF ~artifact_config.present
             THEN _get_model_versions_from_artifacts(i + 1, outputs, context_model, run, acc)
             ELSE LET model == ArtifactConfigModel(artifact_config, context_model)
                  IN  IF model # NoModel
                      THEN LET mv == _get_or_create_model_version(model, run, acc.mvs)
                           IN  _get_model_versions_from_artifacts(
                                   i + 1, outputs, context_model, run,
                                   [models |-> acc.models \cup {mv},
                                    mvs |-> acc.mvs \cup {mv},
                                    resolved |-> acc.resolved \cup {[ref |-> model, mv |-> mv]}])
                      ELSE acc    \* `break`

\* ------------------------------------------------------------------ initial state
Event(op, arg) == [op |-> op, arg |-> arg]
Logged(e, op, arg) == [trace EXCEPT ![e] = Append(@, Event(op, arg))]
Count(e, op) == Len(SelectSeq(trace[e], LAMBDA ev : ev.op = op))
ArtifactId(e, i) == [step_run |-> e, output |-> i]
\* PipelineRunContext before it is entered. `first_run`: the first run whose
\* name starts with the context's pipeline_name; `not_found`: the KeyErrors
\* __exit__ has passed over.
NoRunContext ==
    [position |-> "none", first_run |-> 0, runs |-> <<>>, artifact_versions |-> <<>>,
     tracked_runs |-> {}, tracked_versions |-> {}, not_found |-> 0]
NoCall == [op |-> "none"]
NoResult == [returned |-> FALSE, raised |-> "none"]
NoStepRun ==
    [status |-> "PENDING", pipeline_run |-> 0, pipeline_model |-> NoModel,
     pipeline |-> NoPipeline, name |-> "",
     output_artifacts |-> <<>>, metadata |-> FALSE]

\* get_step_context() in the process of execution e, and its model.
LiveContext(e) == stepContext[cfg[e].process]
ContextModel(e) ==
    StepContextModel(cfg[LiveContext(e)].model, cfg[LiveContext(e)].pipeline_model)

InitRunner ==
    /\ pc = [e \in Execs |-> "idle"]
    /\ cfg = [e \in Execs |-> NoCfg]
    /\ step_failed = [e \in Execs |-> FALSE]
    /\ exc = [e \in Execs |-> "none"]
    /\ return_values = [e \in Execs |-> None]
    /\ output_artifacts = [e \in Execs |-> <<>>]
    /\ resolved = [e \in Execs |-> {}]
    /\ trace = [e \in Execs |-> <<>>]
    /\ stepContext = [p \in Procs |-> 0]
    /\ artifact_versions = {}
    /\ artifact_links = {}
    /\ step_runs = [e \in Execs |-> NoStepRun]
    /\ model_versions = {}
    /\ run_links = EmptyBag
    /\ stages = {}
    /\ pipeline_runs = {}
    /\ artifact_tags = {}
    /\ materializers = {}
    /\ default_materializer = [p \in Procs |-> DefaultMaterializer]
    /\ flags = [e \in Execs |-> NoFlags]
    /\ artifact_names = {}
    /\ artifacts = {}
    /\ run_context = NoRunContext
    /\ written = {}

Init ==
    /\ InitRunner
    /\ users = {}
    /\ call = NoCall
    /\ result = NoResult

Goto(e, where) == pc' = [pc EXCEPT ![e] = where]
Raise(e, exception) ==
    /\ exc' = [exc EXCEPT ![e] = exception]
    /\ Goto(e, "raised")

\* ------------------------------------------------------------------ StepRunner.run
\* The launcher calls run(pipeline_run, step_run, ...) for a step run it has
\* created and set RUNNING, in a pipeline run of the store. run begins with
\* `step_logging_enabled`.
Start(e, c) ==
    /\ pc[e] = "idle"
    /\ Goto(e, "load")
    /\ cfg' = [cfg EXCEPT ![e] = c]
    /\ step_runs' = [step_runs EXCEPT ![e].status = "RUNNING",
                                      ![e].pipeline_run = c.pipeline_run,
                                      ![e].pipeline_model = c.pipeline_model,
                                      ![e].pipeline = c.pipeline,
                                      ![e].name = c.name]
    /\ UNCHANGED <<step_failed, exc, return_values, output_artifacts, resolved,
                   trace, stepContext, artifact_versions, artifact_links, model_versions,
                   run_links>>
    /\ pipeline_runs' = pipeline_runs \cup {c.pipeline_run}
    /\ flags' = [flags EXCEPT ![e].step_logging_enabled = StepLoggingEnabled(c)]
    /\ UNCHANGED <<stages, artifact_tags, materializers, default_materializer>>
    /\ UNCHANGED <<artifact_names, artifacts, run_context, written, users, call, result>>

\* _load_step, _load_output_materializers, `cache_enabled`.
LoadStep(e) ==
    /\ pc[e] = "load"
    /\ Goto(e, "bind")
    /\ UNCHANGED <<locals, stepContext, store>>
    /\ flags' = [flags EXCEPT ![e].cache_enabled =
                     is_setting_enabled(cfg[e].enable_cache.step,
                                        cfg[e].enable_cache.pipeline)]
    /\ UNCHANGED <<stages, pipeline_runs, artifact_tags, materializers,
                   default_materializer>>
    /\ UNCHANGED <<artifact_names, artifacts, run_context, written, users, call, result>>

LoadStepFails(e) ==
    /\ pc[e] = "load"
    /\ Raise(e, "LoadError")
    /\ UNCHANGED <<cfg, step_failed, return_values, output_artifacts, resolved,
                   trace, stepContext, store>>
    /\ UNCHANGED <<stages, pipeline_runs, artifact_tags, materializers,
                   default_materializer, flags>>
    /\ UNCHANGED <<artifact_names, artifacts, run_context, written, users, call, result>>

\* StepContext is a singleton: constructing it while one is live gives the
\* live one back.
KeepLiveContext(live, e) == IF live = 0 THEN e ELSE live

\* StepContext._clear(); StepContext(...): the singleton of the process.
NewStepContext(live, e) == e

BindContext(e) ==
    /\ pc[e] = "bind"
    /\ stepContext' = [stepContext EXCEPT ![cfg[e].process] = NewStepContext(@, e)]
    /\ Goto(e, "prepare_model")
    /\ UNCHANGED <<locals, store>>
    /\ UNCHANGED <<stages, pipeline_runs, artifact_tags, materializers,
                   default_materializer, flags>>
    /\ UNCHANGED <<artifact_names, artifacts, run_context, written, users, call, result>>

\* _prepare_model_context_for_step: StepContextError (no model) is swallowed.
_prepare_model_context_for_step(e) ==
    /\ pc[e] = "prepare_model"
    /\ LiveContext(e) # 0
    /\ IF ContextModel(e) = NoModel
       THEN UNCHANGED <<model_versions, resolved>>
       ELSE LET mv == _get_or_create_model_version(
                          ContextModel(e), cfg[e].pipeline_run, model_versions)
            IN  /\ model_versions' = model_versions \cup {mv}
                /\ resolved' = [resolved EXCEPT
                                  ![e] = @ \cup {[ref |-> ContextModel(e), mv |-> mv]}]
    /\ Goto(e, "parse_inputs")
    /\ UNCHANGED <<cfg, step_failed, exc, return_values, output_artifacts, trace,
                   stepContext, artifact_versions, artifact_links, step_runs, run_links>>
    /\ UNCHANGED <<stages, pipeline_runs, artifact_tags, materializers,
                   default_materializer, flags>>
    /\ UNCHANGED <<artifact_names, artifacts, run_context, written, users, call, result>>

ParseInputs(e) ==
    /\ pc[e] = "parse_inputs"
    /\ _parse_inputs(cfg[e].args).error = "none"
    /\ Goto(e, "link_context")
    /\ UNCHANGED <<locals, stepContext, store>>
    /\ UNCHANGED <<stages, pipeline_runs, artifact_tags, materializers,
                   default_materializer, flags>>
    /\ UNCHANGED <<artifact_names, artifacts, run_context, written, users, call, result>>

ParseInputsFails(e) ==
    /\ pc[e] = "parse_inputs"
    /\ _parse_inputs(cfg[e].args).error # "none"
    /\ Raise(e, _parse_inputs(cfg[e].args).error)
    /\ UNCHANGED <<cfg, step_failed, return_values, output_artifacts, resolved,
                   trace, stepContext, store>>
    /\ UNCHANGED <<stages, pipeline_runs, artifact_tags, materializers,
                   default_materializer, flags>>
    /\ UNCHANGED <<artifact_names, artifacts, run_context, written, users, call, result>>

\* _link_pipeline_run_to_model_from_context that resolves and creates no link.
ResolveWithoutLinking(e) ==
    /\ pc[e] = "link_context"
    /\ LiveContext(e) # 0
    /\ IF ContextModel(e) = NoModel
       THEN UNCHANGED <<model_versions, resolved>>
       ELSE LET mv == _get_or_create_model_version(
                          ContextModel(e), cfg[e].pipeline_run, model_versions)
            IN  /\ model_versions' = model_versions \cup {mv}
                /\ resolved' = [resolved EXCEPT
                                  ![e] = @ \cup {[ref |-> ContextModel(e), mv |-> mv]}]
    /\ step_failed' = [step_failed EXCEPT ![e] = FALSE]
    /\ Goto(e, "entrypoint")
    /\ UNCHANGED <<cfg, exc, return_values, output_artifacts, trace,
                   stepContext, artifact_versions, artifact_links, step_runs, run_links>>
    /\ UNCHANGED <<stages, pipeline_runs, artifact_tags, materializers,
                   default_materializer, flags>>
    /\ UNCHANGED <<artifact_names, artifacts, run_context, written, users, call, result>>

\* _link_pipeline_run_to_model_from_context, with the resolution made by
\* _get_model_versions_from_config; then `step_failed = False`.
_link_pipeline_run_to_model_from_context(e) ==
    /\ pc[e] = "link_context"
    /\ LiveContext(e) # 0
    /\ IF ContextModel(e) = NoModel
       THEN UNCHANGED <<model_versions, resolved, run_links>>
       ELSE LET mv == _get_or_create_model_version(
                          ContextModel(e), cfg[e].pipeline_run, model_versions)
            IN  /\ model_versions' = model_versions \cup {mv}
                /\ resolved' = [resolved EXCEPT
                                  ![e] = @ \cup {[ref |-> ContextModel(e), mv |-> mv]}]
                /\ run_links' = LinkRunToModels(run_links, cfg[e].pipeline_run, {mv})
    /\ step_failed' = [step_failed EXCEPT ![e] = FALSE]
    /\ Goto(e, "entrypoint")
    /\ UNCHANGED <<cfg, exc, return_values, output_artifacts, trace,
                   stepContext, artifact_versions, artifact_links, step_runs>>
    /\ UNCHANGED <<stages, pipeline_runs, artifact_tags, materializers,
                   default_materializer, flags>>
    /\ UNCHANGED <<artifact_names, artifacts, run_context, written, users, call, result>>

\* step_instance.call_entrypoint(**function_params)
CallEntrypoint(e) ==
    /\ pc[e] = "entrypoint"
    /\ trace' = Logged(e, "entrypoint",
                       IF LiveContext(e) = e THEN "own context"
                       ELSE IF LiveContext(e) = 0 THEN "no context"
                       ELSE "other context")
    /\ IF cfg[e].entrypoint.raises
       THEN /\ exc' = [exc EXCEPT ![e] = "StepException"]
            /\ Goto(e, "except")
            /\ UNCHANGED return_values
       ELSE /\ return_values' = [return_values EXCEPT ![e] = cfg[e].entrypoint.value]
            /\ Goto(e, "finally")
            /\ UNCHANGED exc
    /\ UNCHANGED <<cfg, step_failed, output_artifacts, resolved, stepContext, store>>
    /\ UNCHANGED <<stages, pipeline_runs, artifact_tags, materializers,
                   default_materializer, flags>>
    /\ UNCHANGED <<artifact_names, artifacts, run_context, written, users, call, result>>

\* The except block without its `raise`.
Swallowed(step_exception, hook_exception) == "none"

\* The exception in flight when the except block is left: the bare `raise`
\* re-raises the step's exception, unless the hook call raised first.
Reraised(step_exception, hook_exception) ==
    IF hook_exception = "none" THEN step_exception ELSE hook_exception

\* An except block that takes back the links of the pipeline run.
UnlinkOnStepException(e) ==
    /\ pc[e] = "except"
    /\ step_failed' = [step_failed EXCEPT ![e] = TRUE]
    /\ exc' = [exc EXCEPT ![e] = Reraised(@, "none")]
    /\ run_links' = [l \in {x \in BagToSet(run_links) :
                                x.pipeline_run # cfg[e].pipeline_run} |-> run_links[l]]
    /\ Goto(e, "finally")
    /\ UNCHANGED <<cfg, return_values, output_artifacts, resolved, trace, stepContext,
                   artifact_versions, artifact_links, step_runs, model_versions>>
    /\ UNCHANGED <<stages, pipeline_runs, artifact_tags, materializers,
                   default_materializer, flags>>
    /\ UNCHANGED <<artifact_names, artifacts, run_context, written, users, call, result>>

\* `except BaseException as step_exception:` ... `raise`
HandleStepException(e) ==
    /\ pc[e] = "except"
    /\ step_failed' = [step_failed EXCEPT ![e] = TRUE]
    /\ IF cfg[e].failure_hook_source
       THEN \E outcome \in HookOutcomes :
               /\ trace' = Logged(e, "failure_hook", outcome)
               /\ exc' = [exc EXCEPT ![e] = Reraised(@, load_and_run_hook(outcome))]
       ELSE /\ exc' = [exc EXCEPT ![e] = Reraised(@, "none")]
            /\ UNCHANGED trace
    /\ Goto(e, "finally")
    /\ UNCHANGED <<cfg, return_values, output_artifacts, resolved, stepContext, store>>
    /\ UNCHANGED <<stages, pipeline_runs, artifact_tags, materializers,
                   default_materializer, flags>>
    /\ UNCHANGED <<artifact_names, artifacts, run_context, written, users, call, result>>

\* `finally:` get_step_run_metadata and publish_step_run_metadata
PublishStepRunMetadata(e) ==
    /\ pc[e] = "finally"
    /\ step_runs' = [step_runs EXCEPT ![e].metadata = TRUE]
    /\ Goto(e, "cleanup")
    /\ UNCHANGED <<locals, stepContext, artifact_versions, artifact_links, model_versions,
                   run_links>>
    /\ UNCHANGED <<stages, pipeline_runs, artifact_tags, materializers,
                   default_materializer, flags>>
    /\ UNCHANGED <<artifact_names, artifacts, run_context, written, users, call, result>>

\* An exception raised inside the finally block replaces the one in flight.
PublishStepRunMetadataFails(e) ==
    /\ pc[e] = "finally"
    /\ Raise(e, "MetadataError")
    /\ UNCHANGED <<cfg, step_failed, return_values, output_artifacts, resolved,
                   trace, stepContext, store>>
    /\ UNCHANGED <<stages, pipeline_runs, artifact_tags, materializers,
                   default_materializer, flags>>
    /\ UNCHANGED <<artifact_names, artifacts, run_context, written, users, call, result>>

\* self._stack.cleanup_step_run(info, step_failed=step_failed)
CleanupStepRun(e) ==
    /\ pc[e] = "cleanup"
    /\ trace' = Logged(e, "cleanup_step_run", IF step_failed[e] THEN "failed" ELSE "ok")
    /\ Goto(e, IF step_failed[e] THEN "clear" ELSE "success_hook")
    /\ UNCHANGED <<cfg, step_failed, exc, return_values, output_artifacts, resolved,
                   stepContext, store>>
    /\ UNCHANGED <<stages, pipeline_runs, artifact_tags, materializers,
                   default_materializer, flags>>
    /\ UNCHANGED <<artifact_names, artifacts, run_context, written, users, call, result>>

CleanupStepRunFails(e) ==
    /\ pc[e] = "cleanup"
    /\ trace' = Logged(e, "cleanup_step_run", IF step_failed[e] THEN "failed" ELSE "ok")
    /\ Raise(e, "CleanupError")
    /\ UNCHANGED <<cfg, step_failed, return_values, output_artifacts, resolved,
                   stepContext, store>>
    /\ UNCHANGED <<stages, pipeline_runs, artifact_tags, materializers,
                   default_materializer, flags>>
    /\ UNCHANGED <<artifact_names, artifacts, run_context, written, users, call, result>>

\* `if not step_failed:` the success hook, when one is declared
RunSuccessHook(e) ==
    /\ pc[e] = "success_hook"
    /\ IF cfg[e].success_hook_source
       THEN \E outcome \in HookOutcomes :
               /\ trace' = Logged(e, "success_hook", outcome)
               /\ IF load_and_run_hook(outcome) = "none"
                  THEN Goto(e, "validate") /\ UNCHANGED exc
                  ELSE Raise(e, load_and_run_hook(outcome))
       ELSE Goto(e, "validate") /\ UNCHANGED <<trace, exc>>
    /\ UNCHANGED <<cfg, step_failed, return_values, output_artifacts, resolved,
                   stepContext, store>>
    /\ UNCHANGED <<stages, pipeline_runs, artifact_tags, materializers,
                   default_materializer, flags>>
    /\ UNCHANGED <<artifact_names, artifacts, run_context, written, users, call, result>>

\* _validate_outputs, `artifact_metadata_enabled`,
\* `artifact_visualization_enabled`.
ValidateOutputs(e) ==
    /\ pc[e] = "validate"
    /\ ~_validate_outputs(return_values[e], cfg[e].outputs).error
    /\ Goto(e, "store")
    /\ UNCHANGED <<locals, stepContext, store>>
    /\ flags' = [flags EXCEPT
                    ![e].artifact_metadata_enabled =
                        is_setting_enabled(cfg[e].enable_artifact_metadata.step,
                                           cfg[e].enable_artifact_metadata.pipeline),
                    ![e].artifact_visualization_enabled =
                        is_setting_enabled(cfg[e].enable_artifact_visualization.step,
                                           cfg[e].enable_artifact_visualization.pipeline)]
    /\ UNCHANGED <<stages, pipeline_runs, artifact_tags, materializers,
                   default_materializer>>
    /\ UNCHANGED <<artifact_names, artifacts, run_context, written, users, call, result>>

ValidateOutputsFails(e) ==
    /\ pc[e] = "validate"
    /\ _validate_outputs(return_values[e], cfg[e].outputs).error
    /\ Raise(e, "StepInterfaceError")
    /\ UNCHANGED <<cfg, step_failed, return_values, output_artifacts, resolved,
                   trace, stepContext, store>>
    /\ UNCHANGED <<stages, pipeline_runs, artifact_tags, materializers,
                   default_materializer, flags>>
    /\ UNCHANGED <<artifact_names, artifacts, run_context, written, users, call, result>>

\* The name under which output i of execution e is saved.
ArtifactNameOf(e, i) == artifact_name(cfg[e].pipeline, cfg[e].name, cfg[e].outputs, i)

\* The runtime type of the value of output i.
DataType(e, i) == _validate_outputs(return_values[e], cfg[e].outputs).outputs[i]

\* _store_output_artifacts publishing the step run with each output it saves.
SaveAndPublishArtifact(e) ==
    /\ pc[e] = "store"
    /\ Len(output_artifacts[e]) < Len(cfg[e].outputs)
    /\ LET i == Len(output_artifacts[e]) + 1
           id == ArtifactId(e, i)
           chosen == ChooseMaterializer(DataType(e, i), cfg[e].output_config[i],
                                        default_materializer[cfg[e].process])
       IN  /\ chosen.materializer_class # "none"
           /\ default_materializer' =
                  [default_materializer EXCEPT ![cfg[e].process] = chosen.default_materializer]
           /\ materializers' = materializers \cup
                  {[artifact |-> id, materializer |-> chosen.materializer_class]}
           /\ artifact_versions' = artifact_versions \cup {id}
           /\ artifacts' = artifacts \cup {ArtifactNameOf(e, i)}
           /\ artifact_names' = artifact_names \cup
                  {[artifact |-> id, name |-> ArtifactNameOf(e, i),
                    has_custom_name |-> has_custom_name(cfg[e].outputs[i].artifact_config)]}
           /\ output_artifacts' = [output_artifacts EXCEPT ![e] = Append(@, id)]
           /\ step_runs' = [step_runs EXCEPT ![e].status = "COMPLETED",
                                             ![e].output_artifacts = Append(@, id)]
    /\ UNCHANGED <<pc, cfg, step_failed, exc, return_values, resolved, trace,
                   stepContext, artifact_links, model_versions, run_links>>
    /\ UNCHANGED <<stages, pipeline_runs, artifact_tags, flags>>
    /\ UNCHANGED <<run_context, written, users, call, result>>

\* _store_output_artifacts: one turn of the loop, a materializer being found
\* and save_artifact succeeding
SaveArtifact(e) ==
    /\ pc[e] = "store"
    /\ Len(output_artifacts[e]) < Len(cfg[e].outputs)
    /\ LET i == Len(output_artifacts[e]) + 1
           id == ArtifactId(e, i)
           chosen == ChooseMaterializer(DataType(e, i), cfg[e].output_config[i],
                                        default_materializer[cfg[e].process])
       IN  /\ chosen.materializer_class # "none"
           /\ default_materializer' =
                  [default_materializer EXCEPT ![cfg[e].process] = chosen.default_materializer]
           /\ materializers' = materializers \cup
                  {[artifact |-> id, materializer |-> chosen.materializer_class]}
           /\ artifact_versions' = artifact_versions \cup {id}
           /\ artifacts' = artifacts \cup {ArtifactNameOf(e, i)}
           /\ artifact_names' = artifact_names \cup
                  {[artifact |-> id, name |-> ArtifactNameOf(e, i),
                    has_custom_name |-> has_custom_name(cfg[e].outputs[i].artifact_config)]}
           /\ output_artifacts' = [output_artifacts EXCEPT ![e] = Append(@, id)]
    /\ UNCHANGED <<pc, cfg, step_failed, exc, return_values, resolved, trace,
                   stepContext, artifact_links, step_runs, model_versions, run_links>>
    /\ UNCHANGED <<stages, pipeline_runs, artifact_tags, flags>>
    /\ UNCHANGED <<run_context, written, users, call, result>>

\* ... one turn of the loop, save_artifact raising
SaveArtifactFails(e) ==
    /\ pc[e] = "store"
    /\ Len(output_artifacts[e]) < Len(cfg[e].outputs)
    /\ Raise(e, "StoreError")
    /\ UNCHANGED <<cfg, step_failed, return_values, output_artifacts, resolved,
                   trace, stepContext, store>>
    /\ UNCHANGED <<stages, pipeline_runs, artifact_tags, materializers,
                   default_materializer, flags>>
    /\ UNCHANGED <<artifact_names, artifacts, run_context, written, users, call, result>>

\* link_step_artifacts_to_model(artifact_version_ids=output_artifact_ids),
\* after the loop has ended
LinkStepArtifactsToModel(e) ==
    /\ pc[e] = "store"
    /\ Len(output_artifacts[e]) = Len(cfg[e].outputs)
    /\ LiveContext(e) # 0
    /\ LET got == link_step_artifacts_to_model(
                      1, cfg[LiveContext(e)].outputs, output_artifacts[e],
                      ContextModel(e), cfg[e].pipeline_run,
                      [links |-> artifact_links, mvs |-> model_versions])
       IN  /\ artifact_links' = got.links
           /\ model_versions' = got.mvs
    /\ Goto(e, "link_artifacts")
    /\ UNCHANGED <<cfg, step_failed, exc, return_values, output_artifacts, resolved,
                   trace, stepContext, artifact_versions, step_runs, run_links>>
    /\ UNCHANGED <<stages, pipeline_runs, artifact_tags, materializers,
                   default_materializer, flags>>
    /\ UNCHANGED <<artifact_names, artifacts, run_context, written, users, call, result>>

\* _link_pipeline_run_to_model_from_artifacts
_link_pipeline_run_to_model_from_artifacts(e) ==
    /\ pc[e] = "link_artifacts"
    /\ LiveContext(e) # 0
    /\ LET got == _get_model_versions_from_artifacts(
                      1, cfg[LiveContext(e)].outputs, ContextModel(e),
                      cfg[e].pipeline_run,
                      [models |-> {}, mvs |-> model_versions, resolved |-> {}])
           models == got.models \cup cfg[e].external_input_artifacts
       IN  /\ model_versions' = got.mvs
           /\ resolved' = [resolved EXCEPT ![e] = @ \cup got.resolved]
           /\ run_links' = LinkRunToModels(run_links, cfg[e].pipeline_run, models)
    /\ Goto(e, "clear")
    /\ UNCHANGED <<cfg, step_failed, exc, return_values, output_artifacts, trace,
                   stepContext, artifact_versions, artifact_links, step_runs>>
    /\ UNCHANGED <<stages, pipeline_runs, artifact_tags, materializers,
                   default_materializer, flags>>
    /\ UNCHANGED <<artifact_names, artifacts, run_context, written, users, call, result>>

\* StepContext._clear() that only removes the context of its own step run.
ClearOwnContext(e) ==
    /\ pc[e] = "clear"
    /\ stepContext' = [stepContext EXCEPT ![cfg[e].process] = IF @ = e THEN 0 ELSE @]
    /\ Goto(e, IF exc[e] # "none" THEN "raised" ELSE "publish")
    /\ UNCHANGED <<locals, store>>
    /\ UNCHANGED <<stages, pipeline_runs, artifact_tags, materializers,
                   default_materializer, flags>>
    /\ UNCHANGED <<artifact_names, artifacts, run_context, written, users, call, result>>

\* StepContext._clear(), the last statement of the finally block; the
\* exception in flight, if any, then goes on.
ClearContext(e) ==
    /\ pc[e] = "clear"
    /\ stepContext' = [stepContext EXCEPT ![cfg[e].process] = 0]
    /\ Goto(e, IF exc[e] # "none" THEN "raised" ELSE "publish")
    /\ UNCHANGED <<locals, store>>
    /\ UNCHANGED <<stages, pipeline_runs, artifact_tags, materializers,
                   default_materializer, flags>>
    /\ UNCHANGED <<artifact_names, artifacts, run_context, written, users, call, result>>

\* get_step_context() while no StepContext is live: RuntimeError. Before the
\* try statement, and inside its finally block, the exception leaves run.
GetStepContextFails(e) ==
    /\ pc[e] \in {"prepare_model", "link_context", "store"}
    /\ LiveContext(e) = 0
    /\ Raise(e, "RuntimeError")
    /\ UNCHANGED <<cfg, step_failed, return_values, output_artifacts, resolved,
                   trace, stepContext, store>>
    /\ UNCHANGED <<stages, pipeline_runs, artifact_tags, materializers,
                   default_materializer, flags>>
    /\ UNCHANGED <<artifact_names, artifacts, run_context, written, users, call, result>>

\* _link_pipeline_run_to_model_from_artifacts of a step without outputs: no
\* output is looked up in the step context.
LinkExternalArtifactsOnly(e) ==
    /\ pc[e] = "link_artifacts"
    /\ LiveContext(e) = 0
    /\ cfg[e].outputs = <<>>
    /\ run_links' = LinkRunToModels(run_links, cfg[e].pipeline_run,
                                    cfg[e].external_input_artifacts)
    /\ Goto(e, "clear")
    /\ UNCHANGED <<locals, stepContext, artifact_versions, artifact_links, step_runs,
                   model_versions>>
    /\ UNCHANGED <<stages, pipeline_runs, artifact_tags, materializers,
                   default_materializer, flags>>
    /\ UNCHANGED <<artifact_names, artifacts, run_context, written, users, call, result>>

\* publish_successful_step_run without the ids of the output artifacts.
PublishWithoutOutputs(e) ==
    /\ pc[e] = "publish"
    /\ step_runs' = [step_runs EXCEPT ![e].status = "COMPLETED"]
    /\ Goto(e, "returned")
    /\ UNCHANGED <<locals, stepContext, artifact_versions, artifact_links, model_versions,
                   run_links>>
    /\ UNCHANGED <<stages, pipeline_runs, artifact_tags, materializers,
                   default_materializer, flags>>
    /\ UNCHANGED <<artifact_names, artifacts, run_context, written, users, call, result>>

\* publish_successful_step_run(step_run_id, output_artifact_ids)
PublishSuccessfulStepRun(e) ==
    /\ pc[e] = "publish"
    /\ step_runs' = [step_runs EXCEPT ![e].status = "COMPLETED",
                                      ![e].output_artifacts = output_artifacts[e]]
    /\ Goto(e, "returned")
    /\ UNCHANGED <<locals, stepContext, artifact_versions, artifact_links, model_versions,
                   run_links>>
    /\ UNCHANGED <<stages, pipeline_runs, artifact_tags, materializers,
                   default_materializer, flags>>
    /\ UNCHANGED <<artifact_names, artifacts, run_context, written, users, call, result>>

\* The caller of run: an exception that leaves run marks the StepRun FAILED.
PublishFailedStepRun(e) ==
    /\ pc[e] = "raised"
    /\ step_runs' = [step_runs EXCEPT ![e].status = "FAILED"]
    /\ Goto(e, "failed")
    /\ UNCHANGED <<locals, stepContext, artifact_versions, artifact_links, model_versions,
                   run_links>>
    /\ UNCHANGED <<stages, pipeline_runs, artifact_tags, materializers,
                   default_materializer, flags>>
    /\ UNCHANGED <<artifact_names, artifacts, run_context, written, users, call, result>>

\* The call is over: its locals are gone; the process and the store stay.
Exit(e) ==
    /\ pc[e] \in {"returned", "failed"}
    /\ Goto(e, "done")
    /\ cfg' = [cfg EXCEPT ![e] = NoCfg]
    /\ step_failed' = [step_failed EXCEPT ![e] = FALSE]
    /\ exc' = [exc EXCEPT ![e] = "none"]
    /\ return_values' = [return_values EXCEPT ![e] = None]
    /\ output_artifacts' = [output_artifacts EXCEPT ![e] = <<>>]
    /\ resolved' = [resolved EXCEPT ![e] = {}]
    /\ trace' = [trace EXCEPT ![e] = <<>>]
    /\ flags' = [flags EXCEPT ![e] = NoFlags]
    /\ UNCHANGED <<stepContext, store>>
    /\ UNCHANGED <<stages, pipeline_runs, artifact_tags, materializers,
                   default_materializer>>
    /\ UNCHANGED <<artifact_names, artifacts, run_context, written, users, call, result>>

\* ------------------------------------------------------------------ the steps executed
OutputLists(types, configs) ==
    SeqsUpTo({OutputSignature(t, ac) : t \in types, ac \in configs}, MaxOutputs)

\* Entrypoint signatures: the three sources in one signature; an argument
\* nothing supplies; an input artifact of an incompatible type.
GoodArgs ==
    <<Arg("StepContext", "none", FALSE), Arg("int", "compatible", TRUE),
      Arg("int", "none", TRUE)>>
ArgLists ==
    {GoodArgs, <<Arg("int", "none", FALSE)>>, <<Arg("int", "incompatible", TRUE)>>}

StepConfig(o, a, b, fh, sh, m, x, r, p) ==
    [outputs |-> o, args |-> a, entrypoint |-> b,
     failure_hook_source |-> fh, success_hook_source |-> sh,
     model |-> m, pipeline_model |-> NoModel, external_input_artifacts |-> x,
     pipeline_run |-> r, process |-> p,
     output_config |-> [i \in 1..Len(o) |-> NoOutputConfig],
     pipeline |-> NoPipeline, name |-> "step",
     disable_step_logs_storage |-> FALSE, enable_step_logs |-> Unset,
     enable_cache |-> Unset, enable_artifact_metadata |-> Unset,
     enable_artifact_visualization |-> Unset]

\* The step as part of a pipeline that declares a model.
PipelineStepConfig(c, pipeline_model) == [c EXCEPT !.pipeline_model = pipeline_model]

\* Steps without model bindings, run one after another in one process.
\* Both hooks are declared, or none is.
RunConfigs ==
    {StepConfig(o, a, b, h, h, NoModel, {}, 1, 1) :
        o \in OutputLists({"int"}, {NoArtifactConfig}),
        a \in ArgLists, b \in Behaviours, h \in BOOLEAN}

\* One process runs its steps one after another.
RunStep(e) ==
    /\ pc[e] = "idle"
    /\ e <= MaxExecs
    /\ \A f \in Execs : f < e => pc[f] = "done"
    /\ \E c \in RunConfigs : Start(e, c)

Next ==
    \E e \in Execs :
        \/ RunStep(e)
        \/ LoadStep(e)
        \/ LoadStepFails(e)
        \/ BindContext(e)
        \/ _prepare_model_context_for_step(e)
        \/ ParseInputs(e)
        \/ ParseInputsFails(e)
        \/ _link_pipeline_run_to_model_from_context(e)
        \/ CallEntrypoint(e)
        \/ HandleStepException(e)
        \/ PublishStepRunMetadata(e)
        \/ PublishStepRunMetadataFails(e)
        \/ CleanupStepRun(e)
        \/ CleanupStepRunFails(e)
        \/ RunSuccessHook(e)
        \/ ValidateOutputs(e)
        \/ ValidateOutputsFails(e)
        \/ SaveArtifact(e)
        \/ SaveArtifactFails(e)
        \/ LinkStepArtifactsToModel(e)
        \/ _link_pipeline_run_to_model_from_artifacts(e)
        \/ ClearContext(e)
        \/ PublishSuccessfulStepRun(e)
        \/ PublishFailedStepRun(e)
        \/ Exit(e)

Spec == Init /\ [][Next]_vars

\* ------------------------------------------------------------------ steps bound to models
\* What an entrypoint returns for its outputs to be valid.
ValidReturn(outputs) ==
    IF Len(outputs) = 0 THEN None
    ELSE IF Len(outputs) = 1 THEN Scalar("int")
    ELSE Tuple([i \in 1..Len(outputs) |-> "int"])

\* An output has no artifact config, one that names no model, or one that
\* names a model.
LinkArtifactConfigs ==
    {NoArtifactConfig, ArtifactConfig(NoModel)}
        \cup {ArtifactConfig(Latest(m)) : m \in ModelNames}

\* A stage alias is only referred to once the model has a version.
Resolvable(ref, mvs) == ref.version = "latest" => VersionsOf(mvs, ref.name) # {}

\* Steps of pipeline run r that declare a pair of outputs, bound to models by
\* the step, by the outputs' artifact configs and by an external input
\* artifact of the latest version of a model.
LinkConfigs(r, mvs) ==
    {StepConfig(o, GoodArgs, Returns(ValidReturn(o)), FALSE, FALSE, m, x, r, 1) :
        o \in {<<OutputSignature("Any", a), OutputSignature("Any", b)>> :
                  a \in LinkArtifactConfigs, b \in LinkArtifactConfigs},
        m \in {NoModel} \cup ModelRefs,
        x \in {{}} \cup {{LatestOf(mvs, n)} : n \in {k \in ModelNames : VersionsOf(mvs, k) # {}}}}

\* The pipeline runs take place one after another, and so do their steps.
RunLinkedStep(e) ==
    /\ pc[e] = "idle"
    /\ e <= MaxLinkExecs
    /\ \A f \in Execs : f < e => pc[f] = "done"
    /\ \E r \in Runs :
        /\ IF e = 1 THEN r = 1
           ELSE r \in {step_runs[e - 1].pipeline_run, step_runs[e - 1].pipeline_run + 1}
        /\ \E c \in LinkConfigs(r, model_versions) :
            /\ Resolvable(c.model, model_versions)
            /\ \A i \in 1..Len(c.outputs) :
                   Resolvable(c.outputs[i].artifact_config.model, model_versions)
            /\ Start(e, c)

NextLink ==
    \E e \in Execs :
        \/ RunLinkedStep(e)
        \/ LoadStep(e)
        \/ BindContext(e)
        \/ _prepare_model_context_for_step(e)
        \/ ParseInputs(e)
        \/ _link_pipeline_run_to_model_from_context(e)
        \/ CallEntrypoint(e)
        \/ PublishStepRunMetadata(e)
        \/ CleanupStepRun(e)
        \/ RunSuccessHook(e)
        \/ ValidateOutputs(e)
        \/ SaveArtifact(e)
        \/ LinkStepArtifactsToModel(e)
        \/ _link_pipeline_run_to_model_from_artifacts(e)
        \/ ClearContext(e)
        \/ PublishSuccessfulStepRun(e)
        \/ Exit(e)

SpecLink == Init /\ [][NextLink]_vars

\* ------------------------------------------------------------------ concurrent steps of one run
\* Steps of pipeline run 1, each in a process of its own, that ask for a new
\* version of a model: by the step's binding, by an output's artifact config.
ConcConfigs(p) ==
    {StepConfig(o, GoodArgs, Returns(ValidReturn(o)), FALSE, FALSE, m, {}, 1, p) :
        o \in {<<>>} \cup
              {<<OutputSignature("Any", ArtifactConfig(NewVersion(n)))>> : n \in ModelNames},
        m \in {NoModel} \cup {NewVersion(n) : n \in ModelNames}}

RunConcurrentStep(e) ==
    /\ pc[e] = "idle"
    /\ e <= NumConc
    /\ \E c \in ConcConfigs(e) : Start(e, c)

NextConc ==
    \E e \in Execs :
        \/ RunConcurrentStep(e)
        \/ LoadStep(e)
        \/ BindContext(e)
        \/ _prepare_model_context_for_step(e)
        \/ ParseInputs(e)
        \/ _link_pipeline_run_to_model_from_context(e)
        \/ CallEntrypoint(e)
        \/ PublishStepRunMetadata(e)
        \/ CleanupStepRun(e)
        \/ RunSuccessHook(e)
        \/ ValidateOutputs(e)
        \/ SaveArtifact(e)
        \/ LinkStepArtifactsToModel(e)
        \/ _link_pipeline_run_to_model_from_artifacts(e)
        \/ ClearContext(e)
        \/ PublishSuccessfulStepRun(e)

SpecConc == Init /\ [][NextConc]_vars

\* ------------------------------------------------------------------ concurrent steps of one process
\* Steps of pipeline run 1 without outputs whose executions interleave in
\* process 1.
SharedProcessConfig ==
    StepConfig(<<>>, GoodArgs, Returns(None), FALSE, FALSE, NoModel, {}, 1, 1)

RunStepInSharedProcess(e) ==
    /\ pc[e] = "idle"
    /\ e <= NumConc
    /\ Start(e, SharedProcessConfig)

NextShared ==
    \E e \in Execs :
        \/ RunStepInSharedProcess(e)
        \/ LoadStep(e)
        \/ BindContext(e)
        \/ _prepare_model_context_for_step(e)
        \/ ParseInputs(e)
        \/ _link_pipeline_run_to_model_from_context(e)
        \/ GetStepContextFails(e)
        \/ CallEntrypoint(e)
        \/ PublishStepRunMetadata(e)
        \/ CleanupStepRun(e)
        \/ RunSuccessHook(e)
        \/ ValidateOutputs(e)
        \/ LinkStepArtifactsToModel(e)
        \/ _link_pipeline_run_to_model_from_artifacts(e)
        \/ LinkExternalArtifactsOnly(e)
        \/ ClearContext(e)
        \/ PublishSuccessfulStepRun(e)
        \/ PublishFailedStepRun(e)

SpecShared == Init /\ [][NextShared]_vars

\* ------------------------------------------------------------------ links of runs that fail
\* Pipeline run r has one step, bound to a new version of "foo", whose int
\* output is bound to a new version of "bar" and which may take an external
\* artifact of the latest version of "bar"; its entrypoint raises, returns an
\* int or returns a str.
FailingLinkConfigs(r, mvs) ==
    {StepConfig(<<OutputSignature("int", ArtifactConfig(NewVersion("bar")))>>, GoodArgs,
                b, FALSE, FALSE, NewVersion("foo"), x, r, 1) :
        b \in {Raises, Returns(Scalar("int")), Returns(Scalar("str"))},
        x \in {{}} \cup (IF VersionsOf(mvs, "bar") # {} THEN {{LatestOf(mvs, "bar")}}
                         ELSE {})}

RunFailingLinkStep(e) ==
    /\ pc[e] = "idle"
    /\ e <= MaxExecs
    /\ \A f \in Execs : f < e => pc[f] = "done"
    /\ \E c \in FailingLinkConfigs(e, model_versions) : Start(e, c)

NextFailingLinks ==
    \E e \in Execs :
        \/ RunFailingLinkStep(e)
        \/ LoadStep(e)
        \/ BindContext(e)
        \/ _prepare_model_context_for_step(e)
        \/ ParseInputs(e)
        \/ _link_pipeline_run_to_model_from_context(e)
        \/ CallEntrypoint(e)
        \/ HandleStepException(e)
        \/ PublishStepRunMetadata(e)
        \/ CleanupStepRun(e)
        \/ RunSuccessHook(e)
        \/ ValidateOutputs(e)
        \/ ValidateOutputsFails(e)
        \/ SaveArtifact(e)
        \/ SaveArtifactFails(e)
        \/ LinkStepArtifactsToModel(e)
        \/ _link_pipeline_run_to_model_from_artifacts(e)
        \/ ClearContext(e)
        \/ PublishSuccessfulStepRun(e)
        \/ PublishFailedStepRun(e)
        \/ Exit(e)

SpecFailingLinks == Init /\ [][NextFailingLinks]_vars

\* ------------------------------------------------------------------ models of steps and pipelines
\* The steps declare model "foo" or none, their pipelines model "bar" or none:
\* references that name no version.
StepModels == {NoModel, NewVersion("foo")}
PipelineModels == {NoModel, NewVersion("bar")}
VersionedModelNames == {"foo", "bar"}

\* A step with one output, in pipeline run r of a pipeline with model
\* pipeline_model.
VersioningConfigs(r, pipeline_model) ==
    {PipelineStepConfig(
         StepConfig(<<OutputSignature("Any", NoArtifactConfig)>>, GoodArgs,
                    Returns(Scalar("int")), FALSE, FALSE, m, {}, r, 1),
         pipeline_model) : m \in StepModels}

\* The pipeline runs take place one after another, and so do their steps; the
\* steps of one run belong to one pipeline.
RunVersioningStep(e) ==
    /\ pc[e] = "idle"
    /\ e <= MaxLinkExecs
    /\ \A f \in Execs : f < e => pc[f] = "done"
    /\ \E r \in Runs, pipeline_model \in PipelineModels :
        /\ IF e = 1 THEN r = 1
           ELSE \/ r = step_runs[e - 1].pipeline_run
                   /\ pipeline_model = step_runs[e - 1].pipeline_model
                \/ r = step_runs[e - 1].pipeline_run + 1
        /\ \E c \in VersioningConfigs(r, pipeline_model) : Start(e, c)

NextVersions ==
    \E e \in Execs :
        \/ RunVersioningStep(e)
        \/ LoadStep(e)
        \/ BindContext(e)
        \/ _prepare_model_context_for_step(e)
        \/ ParseInputs(e)
        \/ _link_pipeline_run_to_model_from_context(e)
        \/ CallEntrypoint(e)
        \/ PublishStepRunMetadata(e)
        \/ CleanupStepRun(e)
        \/ RunSuccessHook(e)
        \/ ValidateOutputs(e)
        \/ SaveArtifact(e)
        \/ LinkStepArtifactsToModel(e)
        \/ _link_pipeline_run_to_model_from_artifacts(e)
        \/ ClearContext(e)
        \/ PublishSuccessfulStepRun(e)
        \/ Exit(e)

SpecVersions == Init /\ [][NextVersions]_vars

\* ------------------------------------------------------------------ runs that fail and are repeated
\* The model of the pipeline: the first run asks for a new version of "foo",
\* the later runs refer to version 1 by its name.
RecoveryModel(r) == IF r = 1 THEN NewVersion("foo") ELSE Numbered("foo", 1)

\* _this_step_produces_output: one output, no artifact config.
ProducerConfig(r) ==
    PipelineStepConfig(
        StepConfig(<<OutputSignature("Any", NoArtifactConfig)>>, GoodArgs,
                   Returns(Scalar("int")), FALSE, FALSE, NoModel, {}, r, 1),
        RecoveryModel(r))

\* _this_step_tries_to_recover: no output; it raises, or not, with or without
\* hooks.
ConsumerConfigs(r) ==
    {PipelineStepConfig(
         StepConfig(<<>>, GoodArgs, b, h, h, NoModel, {}, r, 1), RecoveryModel(r)) :
        b \in {Raises, Returns(None)}, h \in BOOLEAN}

\* Each run executes the producer, then the consumer; the runs follow each other.
PipelineRunOf(e) == (e + 1) \div 2
IsConsumer(e) == e % 2 = 0
RunRecoveryStep(e) ==
    /\ pc[e] = "idle"
    /\ e <= MaxLinkExecs
    /\ PipelineRunOf(e) <= MaxRuns
    /\ \A f \in Execs : f < e => pc[f] = "done"
    /\ \E c \in (IF IsConsumer(e) THEN ConsumerConfigs(PipelineRunOf(e))
                  ELSE {ProducerConfig(PipelineRunOf(e))}) : Start(e, c)

NextRecovery ==
    \E e \in Execs :
        \/ RunRecoveryStep(e)
        \/ LoadStep(e)
        \/ BindContext(e)
        \/ _prepare_model_context_for_step(e)
        \/ ParseInputs(e)
        \/ _link_pipeline_run_to_model_from_context(e)
        \/ CallEntrypoint(e)
        \/ HandleStepException(e)
        \/ PublishStepRunMetadata(e)
        \/ CleanupStepRun(e)
        \/ RunSuccessHook(e)
        \/ ValidateOutputs(e)
        \/ SaveArtifact(e)
        \/ LinkStepArtifactsToModel(e)
        \/ _link_pipeline_run_to_model_from_artifacts(e)
        \/ ClearContext(e)
        \/ PublishSuccessfulStepRun(e)
        \/ PublishFailedStepRun(e)
        \/ Exit(e)

SpecRecovery == Init /\ [][NextRecovery]_vars

\* ------------------------------------------------------------------ runs with cached steps
\* Each run has two steps: one that asks for a new version of "foo" and may
\* be served from the cache, and one that always runs, in the context of the
\* pipeline's model, the latest version of "foo", with or without an artifact
\* config on its output.
CacheableConfig(r) ==
    PipelineStepConfig(
        StepConfig(<<OutputSignature("Any", NoArtifactConfig)>>, GoodArgs,
                   Returns(Scalar("int")), FALSE, FALSE, NewVersion("foo"), {}, r, 1),
        Latest("foo"))
AlwaysRunConfigs(r) ==
    {PipelineStepConfig(
         StepConfig(<<OutputSignature("Any", ac)>>, GoodArgs,
                    Returns(Scalar("int")), FALSE, FALSE, NoModel, {}, r, 1),
         Latest("foo")) : ac \in {NoArtifactConfig, ArtifactConfig(NoModel)}}
IsCacheable(e) == e % 2 = 1

\* The launcher, when a run starts: the new versions its steps ask for are
\* created for the run, before any step is executed or found in the cache.
PrepareNewVersions(e) ==
    /\ pc[e] = "idle"
    /\ IsCacheable(e)
    /\ e <= MaxLinkExecs
    /\ PipelineRunOf(e) <= MaxRuns
    /\ \A f \in Execs : f < e => pc[f] = "done"
    /\ \A v \in model_versions : v.run # PipelineRunOf(e)
    /\ model_versions' = model_versions \cup
           {_get_or_create_model_version(NewVersion("foo"), PipelineRunOf(e),
                                         model_versions)}
    /\ UNCHANGED <<pc, locals, stepContext, artifact_versions, artifact_links,
                   step_runs, run_links>>
    /\ UNCHANGED <<stages, pipeline_runs, artifact_tags, materializers,
                   default_materializer, flags>>
    /\ UNCHANGED <<artifact_names, artifacts, run_context, written, users, call, result>>

\* The launcher finds a step run to reuse: StepRunner.run is not called.
UseCachedStepRun(e) ==
    /\ pc[e] = "idle"
    /\ IsCacheable(e)
    /\ e > 2
    /\ e <= MaxLinkExecs
    /\ \A f \in Execs : f < e => pc[f] = "done"
    /\ \E v \in model_versions : v.run = PipelineRunOf(e)
    /\ step_runs[e - 2].status \in {"COMPLETED", "CACHED"}
    /\ step_runs' = [step_runs EXCEPT
                       ![e] = [status |-> "CACHED",
                               pipeline_run |-> PipelineRunOf(e),
                               pipeline_model |-> Latest("foo"),
                               output_artifacts |-> step_runs[e - 2].output_artifacts,
                               metadata |-> FALSE]]
    /\ Goto(e, "done")
    /\ UNCHANGED <<locals, stepContext, artifact_versions, artifact_links,
                   model_versions, run_links>>
    /\ UNCHANGED <<stages, pipeline_runs, artifact_tags, materializers,
                   default_materializer, flags>>
    /\ UNCHANGED <<artifact_names, artifacts, run_context, written, users, call, result>>

RunCacheScenarioStep(e) ==
    /\ pc[e] = "idle"
    /\ e <= MaxLinkExecs
    /\ PipelineRunOf(e) <= MaxRuns
    /\ \A f \in Execs : f < e => pc[f] = "done"
    /\ \E v \in model_versions : v.run = PipelineRunOf(e)
    /\ \E c \in (IF IsCacheable(e) THEN {CacheableConfig(PipelineRunOf(e))}
                  ELSE AlwaysRunConfigs(PipelineRunOf(e))) : Start(e, c)

NextCache ==
    \E e \in Execs :
        \/ PrepareNewVersions(e)
        \/ UseCachedStepRun(e)
        \/ RunCacheScenarioStep(e)
        \/ LoadStep(e)
        \/ BindContext(e)
        \/ _prepare_model_context_for_step(e)
        \/ ParseInputs(e)
        \/ _link_pipeline_run_to_model_from_context(e)
        \/ CallEntrypoint(e)
        \/ PublishStepRunMetadata(e)
        \/ CleanupStepRun(e)
        \/ RunSuccessHook(e)
        \/ ValidateOutputs(e)
        \/ SaveArtifact(e)
        \/ LinkStepArtifactsToModel(e)
        \/ _link_pipeline_run_to_model_from_artifacts(e)
        \/ ClearContext(e)
        \/ PublishSuccessfulStepRun(e)
        \/ Exit(e)

SpecCache == Init /\ [][NextCache]_vars

\* ------------------------------------------------------------------ outputs, materializers, settings
WithOutputConfig(c, oc) == [c EXCEPT !.output_config = oc]

\* Steps with one output, annotated int or Any, that return any value, a
\* value of a class of the user's included; the output declares materializer
\* classes, a default materializer, or neither.
OutputValues == ReturnValues \cup {Scalar("Custom")}
OutputConfigs ==
    {NoOutputConfig, OutputConfig(<<>>, "CustomMaterializer"),
     OutputConfig(<<"IntMaterializer", "BuiltInMaterializer">>, "none"),
     OutputConfig(<<"BuiltInMaterializer", "IntMaterializer">>, "none"),
     OutputConfig(<<"OtherMaterializer", "CustomMaterializer">>, "none")}
OneOutputConfigs ==
    {WithOutputConfig(
         StepConfig(<<OutputSignature(t, NoArtifactConfig)>>, GoodArgs, Returns(v),
                    FALSE, FALSE, NoModel, {}, 1, 1), <<oc>>) :
        t \in {"int", "Any"}, v \in OutputValues, oc \in OutputConfigs}

\* Steps with two outputs annotated Any that return two values of a class
\* of the user's; each output has a default materializer or none.
TwoOutputConfigs ==
    {WithOutputConfig(
         StepConfig(<<OutputSignature("Any", NoArtifactConfig),
                      OutputSignature("Any", NoArtifactConfig)>>, GoodArgs,
                    Returns(Tuple(<<"Custom", "Custom">>)),
                    FALSE, FALSE, NoModel, {}, 1, 1), <<a, b>>) :
        a \in {NoOutputConfig, OutputConfig(<<>>, "CustomMaterializer")},
        b \in {NoOutputConfig, OutputConfig(<<>>, "OtherMaterializer")}}

\* Steps that differ in one setting, on the step and on the pipeline, and in
\* ZENML_DISABLE_STEP_LOGS_STORAGE.
PlainConfig ==
    StepConfig(<<OutputSignature("int", NoArtifactConfig)>>, GoodArgs,
               Returns(Scalar("int")), FALSE, FALSE, NoModel, {}, 1, 1)
Settings == {Setting(a, b) : a \in SettingValues, b \in SettingValues}
SettingConfigs ==
    {[PlainConfig EXCEPT !.enable_step_logs = x, !.disable_step_logs_storage = d] :
        x \in Settings, d \in BOOLEAN}
        \cup {[PlainConfig EXCEPT !.enable_cache = x] : x \in Settings}
        \cup {[PlainConfig EXCEPT !.enable_artifact_metadata = x] : x \in Settings}
        \cup {[PlainConfig EXCEPT !.enable_artifact_visualization = x] : x \in Settings}

\* One process runs its steps one after another.
RunOutputStep(e) ==
    /\ pc[e] = "idle"
    /\ e <= MaxExecs
    /\ \A f \in Execs : f < e => pc[f] = "done"
    /\ \E c \in OneOutputConfigs \cup TwoOutputConfigs \cup SettingConfigs : Start(e, c)

NextOutputs ==
    \E e \in Execs :
        \/ RunOutputStep(e)
        \/ LoadStep(e)
        \/ BindContext(e)
        \/ _prepare_model_context_for_step(e)
        \/ ParseInputs(e)
        \/ _link_pipeline_run_to_model_from_context(e)
        \/ CallEntrypoint(e)
        \/ PublishStepRunMetadata(e)
        \/ CleanupStepRun(e)
        \/ RunSuccessHook(e)
        \/ ValidateOutputs(e)
        \/ ValidateOutputsFails(e)
        \/ SaveArtifact(e)
        \/ SaveArtifactFails(e)
        \/ LinkStepArtifactsToModel(e)
        \/ _link_pipeline_run_to_model_from_artifacts(e)
        \/ ClearContext(e)
        \/ PublishSuccessfulStepRun(e)
        \/ PublishFailedStepRun(e)
        \/ Exit(e)

SpecOutputs == Init /\ [][NextOutputs]_vars

\* ------------------------------------------------------------------ stages of model versions
\* ModelVersion.set_stage(ModelStages.PRODUCTION): the version carries the
\* stage from now on, and no other version of its model does.
set_stage(v) ==
    /\ v \in model_versions
    /\ Staged(v, "production") \notin stages
    /\ stages' = {x \in stages : x.model_version.model # v.model \/ x.stage # "production"}
                      \cup {Staged(v, "production")}
    /\ UNCHANGED <<pc, locals, stepContext, artifact_versions, artifact_links, step_runs,
                   model_versions, run_links, pipeline_runs, artifact_tags,
                   materializers, default_materializer, flags>>
    /\ UNCHANGED <<artifact_names, artifacts, run_context, written, users, call, result>>

\* The step of a pipeline run r that asks for a new version of "foo"
\* (_producer), and the step of a run in the context of the production
\* version of "foo", which it takes an artifact from (_consumer).
StageProducerConfig(r) ==
    PipelineStepConfig(
        StepConfig(<<OutputSignature("Any", ArtifactConfig(NoModel))>>, GoodArgs,
                   Returns(Scalar("str")), FALSE, FALSE, NoModel, {}, r, 1),
        NewVersion("foo"))
StageConsumerConfig(r, mvs) ==
    PipelineStepConfig(
        StepConfig(<<>>, GoodArgs, Returns(None), FALSE, FALSE, NoModel,
                   {StagedVersion(mvs, "foo", "production")}, r, 1),
        Production("foo"))

\* Pipeline run e has the one step e; the runs take place one after another.
RunStageStep(e) ==
    /\ pc[e] = "idle"
    /\ e <= MaxLinkExecs
    /\ \A f \in Execs : f < e => pc[f] = "done"
    /\ \E c \in {StageProducerConfig(e)} \cup
                 (IF InStage(model_versions, "foo", "production") # {}
                  THEN {StageConsumerConfig(e, model_versions)} ELSE {}) : Start(e, c)

NextStages ==
    \/ \E v \in model_versions : set_stage(v)
    \/ \E e \in Execs :
        \/ RunStageStep(e)
        \/ LoadStep(e)
        \/ BindContext(e)
        \/ _prepare_model_context_for_step(e)
        \/ ParseInputs(e)
        \/ _link_pipeline_run_to_model_from_context(e)
        \/ CallEntrypoint(e)
        \/ PublishStepRunMetadata(e)
        \/ CleanupStepRun(e)
        \/ RunSuccessHook(e)
        \/ ValidateOutputs(e)
        \/ SaveArtifact(e)
        \/ LinkStepArtifactsToModel(e)
        \/ _link_pipeline_run_to_model_from_artifacts(e)
        \/ ClearContext(e)
        \/ PublishSuccessfulStepRun(e)
        \/ Exit(e)

SpecStages == Init /\ [][NextStages]_vars

\* ------------------------------------------------------------------ deletions
\* The pipeline run that produced an artifact version.
ProducingRun(a) == step_runs[a.step_run].pipeline_run
LinksOfArtifact(links, a) == {l \in links : l.artifact = a}
\* The run links in `links` other than those in the set S.
RunLinksWithout(links, S) == [l \in BagToSet(links) \ S |-> links[l]]

\* delete_pipeline_run that leaves the links of the run in place.
DeleteRunKeepingLinks(r) ==
    /\ r \in pipeline_runs
    /\ \A e \in Execs : pc[e] \in {"idle", "done"}
    /\ pipeline_runs' = pipeline_runs \ {r}
    /\ step_runs' = [e \in Execs |-> IF step_runs[e].pipeline_run = r
                                      THEN [step_runs[e] EXCEPT !.status = "DELETED"]
                                      ELSE step_runs[e]]
    /\ UNCHANGED <<pc, locals, stepContext, artifact_versions, artifact_links, run_links,
                   model_versions, stages, artifact_tags, materializers,
                   default_materializer, flags>>
    /\ UNCHANGED <<artifact_names, artifacts, run_context, written, users, call, result>>

\* Client.delete_pipeline_run, between step executions: the run goes, its
\* step runs go with it, and so does its link to every model version; the
\* model versions and the artifact versions stay.
delete_pipeline_run(r) ==
    /\ r \in pipeline_runs
    /\ \A e \in Execs : pc[e] \in {"idle", "done"}
    /\ pipeline_runs' = pipeline_runs \ {r}
    /\ step_runs' = [e \in Execs |-> IF step_runs[e].pipeline_run = r
                                      THEN [step_runs[e] EXCEPT !.status = "DELETED"]
                                      ELSE step_runs[e]]
    /\ run_links' = RunLinksWithout(run_links,
                                     {l \in BagToSet(run_links) : l.pipeline_run = r})
    /\ UNCHANGED <<pc, locals, stepContext, artifact_versions, artifact_links,
                   model_versions, stages, artifact_tags, materializers,
                   default_materializer, flags>>
    /\ UNCHANGED <<artifact_names, artifacts, run_context, written, users, call, result>>

\* Deleting an artifact version never touches a run link.
NoOrphanedRunLinks(a) == {}

\* The run links that go with artifact version a: those of its producing run
\* to the model versions that a was linked to and that no other artifact
\* version of the run is linked to.
OrphanedRunLinks(a) ==
    {l \in BagToSet(run_links) :
        /\ l.pipeline_run = ProducingRun(a)
        /\ \E x \in LinksOfArtifact(artifact_links, a) : x.model_version = l.model_version
        /\ ~\E x \in artifact_links :
               /\ x.model_version = l.model_version
               /\ x.artifact # a
               /\ ProducingRun(x.artifact) = l.pipeline_run}

\* Client.delete_artifact_version, between step executions: the artifact
\* version goes with what the store keeps about it and with its links to
\* model versions; the model versions stay.
delete_artifact_version(a) ==
    /\ a \in artifact_versions
    /\ \A e \in Execs : pc[e] \in {"idle", "done"}
    /\ artifact_versions' = artifact_versions \ {a}
    /\ artifact_links' = artifact_links \ LinksOfArtifact(artifact_links, a)
    /\ artifact_tags' = {t \in artifact_tags : t.artifact # a}
    /\ materializers' = {m \in materializers : m.artifact # a}
    /\ run_links' = RunLinksWithout(run_links, OrphanedRunLinks(a))
    /\ artifact_names' = {n \in artifact_names : n.artifact # a}
    /\ UNCHANGED <<pc, locals, stepContext, step_runs, model_versions, stages,
                   pipeline_runs, default_materializer, flags>>
    /\ UNCHANGED <<artifacts, run_context, written, users, call, result>>

\* ZenStore.update_artifact_version(id, ArtifactVersionUpdate(add_tags=...)):
\* the tags are added to those of the artifact version.
TagsOf(a) == {t.tag : t \in {x \in artifact_tags : x.artifact = a}}
AddedTags == {{"tag1", "tag2"}}
update_artifact_version(a, add_tags) ==
    /\ a \in artifact_versions
    /\ \A e \in Execs : pc[e] \in {"idle", "done"}
    /\ artifact_tags' = artifact_tags \cup {[artifact |-> a, tag |-> t] : t \in add_tags}
    /\ UNCHANGED <<pc, locals, stepContext, artifact_versions, artifact_links, step_runs,
                   model_versions, run_links, stages, pipeline_runs, materializers,
                   default_materializer, flags>>
    /\ UNCHANGED <<artifact_names, artifacts, run_context, written, users, call, result>>

\* Pipeline run e has the one step e, which declares two outputs, with or
\* without an artifact config, and asks for a new version of "foo" or for
\* its latest version.
DeletionConfigs(r, mvs) ==
    {StepConfig(<<OutputSignature("Any", a), OutputSignature("Any", b)>>, GoodArgs,
                Returns(Tuple(<<"int", "str">>)), FALSE, FALSE, m, {}, r, 1) :
        a \in {ArtifactConfig(NoModel)}, b \in {NoArtifactConfig, ArtifactConfig(NoModel)},
        m \in {NewVersion("foo")} \cup
              (IF VersionsOf(mvs, "foo") # {} THEN {Latest("foo")} ELSE {})}

RunStepBeforeDeletion(e) ==
    /\ pc[e] = "idle"
    /\ e <= MaxExecs
    /\ \A f \in Execs : f < e => pc[f] = "done"
    /\ \E c \in DeletionConfigs(e, model_versions) : Start(e, c)

NextDeletion ==
    \/ \E r \in pipeline_runs : delete_pipeline_run(r)
    \/ \E a \in artifact_versions : delete_artifact_version(a)
    \/ \E a \in artifact_versions, add_tags \in AddedTags :
           update_artifact_version(a, add_tags)
    \/ \E e \in Execs :
        \/ RunStepBeforeDeletion(e)
        \/ LoadStep(e)
        \/ BindContext(e)
        \/ _prepare_model_context_for_step(e)
        \/ ParseInputs(e)
        \/ _link_pipeline_run_to_model_from_context(e)
        \/ CallEntrypoint(e)
        \/ PublishStepRunMetadata(e)
        \/ CleanupStepRun(e)
        \/ RunSuccessHook(e)
        \/ ValidateOutputs(e)
        \/ SaveArtifact(e)
        \/ LinkStepArtifactsToModel(e)
        \/ _link_pipeline_run_to_model_from_artifacts(e)
        \/ ClearContext(e)
        \/ PublishSuccessfulStepRun(e)
        \/ Exit(e)

SpecDeletion == Init /\ [][NextDeletion]_vars

\* ------------------------------------------------------------------ cleanup of a test's runs
\* The set S of numbers or of step runs as a list in ascending order.
RECURSIVE Ascending(_)
Ascending(S) ==
    IF S = {} THEN <<>>
    ELSE LET m == CHOOSE x \in S : \A y \in S : x <= y
         IN  <<m>> \o Ascending(S \ {m})

\* list_run_steps(StepRunFilter(pipeline_run_id=run.id))
StepsOfRun(r) == Ascending({e \in Execs : step_runs[e].pipeline_run = r})

\* [a for a in s.outputs.values()] for every s of steps: the responses, with
\* the artifact each version belongs to.
RECURSIVE OutputsOfSteps(_)
OutputsOfSteps(steps) ==
    IF steps = <<>> THEN <<>>
    ELSE [k \in 1..Len(step_runs[Head(steps)].output_artifacts) |->
             LET a == step_runs[Head(steps)].output_artifacts[k]
             IN  [id |-> a,
                  artifact |-> (CHOOSE n \in artifact_names : n.artifact = a).name]]
         \o OutputsOfSteps(Tail(steps))

\* The loop of __enter__ over self.runs: self.steps grows with each run, and
\* the outputs of all of self.steps are added for each run.
RECURSIVE TrackedArtifactVersions(_, _, _)
TrackedArtifactVersions(runs, steps, versions) ==
    IF runs = <<>> THEN versions
    ELSE LET grown == steps \o StepsOfRun(Head(runs))
         IN  TrackedArtifactVersions(Tail(runs), grown, versions \o OutputsOfSteps(grown))

Range(seq) == {seq[k] : k \in DOMAIN seq}
Idle == \A e \in Execs : pc[e] \in {"idle", "done"}
UnchangedByContext ==
    UNCHANGED <<pc, locals, stepContext, step_runs, model_versions, stages,
                artifact_tags, materializers, default_materializer, flags,
                artifact_links, written, users, call, result>>

\* __enter__, up to the runs of the pipeline: the runs made from now on have
\* names that start with the context's pipeline_name.
EnterContext ==
    /\ run_context.position = "none"
    /\ Idle
    /\ run_context' = [run_context EXCEPT
                          !.position = "entering",
                          !.first_run = 1 + Cardinality({e \in Execs : pc[e] = "done"})]
    /\ UNCHANGED <<pipeline_runs, run_links, artifact_versions, artifact_names, artifacts>>
    /\ UnchangedByContext

\* __enter__, after the runs: list_runs, list_run_steps and the outputs.
ListRuns ==
    /\ run_context.position = "entering"
    /\ Idle
    /\ LET runs == Ascending({r \in pipeline_runs : r >= run_context.first_run})
           versions == TrackedArtifactVersions(runs, <<>>, <<>>)
       IN  run_context' = [run_context EXCEPT
                              !.position = "body",
                              !.runs = runs,
                              !.artifact_versions = versions,
                              !.tracked_runs = Range(runs),
                              !.tracked_versions = Range(versions)]
    /\ UNCHANGED <<pipeline_runs, run_links, artifact_versions, artifact_names, artifacts>>
    /\ UnchangedByContext

\* The body of the `with` statement ends (having deleted some of the runs and
\* artifact versions, or none) and __exit__ begins.
LeaveBody ==
    /\ run_context.position = "body"
    /\ run_context' = [run_context EXCEPT !.position = "runs"]
    /\ UNCHANGED <<pipeline_runs, run_links, artifact_versions, artifact_names, artifacts>>
    /\ UnchangedByContext

\* A delete of __exit__ without `except KeyError: pass`.
KeyErrorRaised(context, next) == [context EXCEPT !.position = "raised"]

\* What follows a delete of __exit__ that found nothing: KeyError, passed over.
KeyErrorPassed(context, next) ==
    [context EXCEPT !.position = next, !.not_found = @ + 1]

\* __exit__, the first loop: delete_pipeline_run(run.id) in try/except KeyError.
ExitDeletePipelineRun ==
    /\ run_context.position = "runs"
    /\ IF run_context.runs = <<>>
       THEN /\ run_context' = [run_context EXCEPT !.position = "artifact_versions"]
            /\ UNCHANGED <<pipeline_runs, step_runs, run_links>>
       ELSE LET r == Head(run_context.runs)
                rest == [run_context EXCEPT !.runs = Tail(@)]
            IN  IF r \in pipeline_runs
                THEN /\ pipeline_runs' = pipeline_runs \ {r}
                     /\ step_runs' =
                            [e \in Execs |-> IF step_runs[e].pipeline_run = r
                                             THEN [step_runs[e] EXCEPT !.status = "DELETED"]
                                             ELSE step_runs[e]]
                     /\ run_links' =
                            RunLinksWithout(run_links,
                                            {l \in BagToSet(run_links) : l.pipeline_run = r})
                     /\ run_context' = rest
                ELSE /\ run_context' = KeyErrorPassed(rest, "runs")
                     /\ UNCHANGED <<pipeline_runs, step_runs, run_links>>
    /\ UNCHANGED <<pc, locals, stepContext, model_versions, stages, artifact_tags,
                   materializers, default_materializer, flags, artifact_links,
                   artifact_versions, artifact_names, artifacts, written, users,
                   call, result>>

\* __exit__, the second loop, first try: delete_artifact_version.
ExitDeleteArtifactVersion ==
    /\ run_context.position = "artifact_versions"
    /\ IF run_context.artifact_versions = <<>>
       THEN /\ run_context' = [run_context EXCEPT !.position = "done"]
            /\ UNCHANGED <<artifact_versions, artifact_links, artifact_tags,
                           materializers, run_links, artifact_names>>
       ELSE LET a == Head(run_context.artifact_versions).id
            IN  IF a \in artifact_versions
                THEN /\ artifact_versions' = artifact_versions \ {a}
                     /\ artifact_links' = artifact_links \ LinksOfArtifact(artifact_links, a)
                     /\ artifact_tags' = {t \in artifact_tags : t.artifact # a}
                     /\ materializers' = {m \in materializers : m.artifact # a}
                     /\ run_links' = RunLinksWithout(run_links, OrphanedRunLinks(a))
                     /\ artifact_names' = {n \in artifact_names : n.artifact # a}
                     /\ run_context' = [run_context EXCEPT !.position = "artifact"]
                ELSE /\ run_context' = KeyErrorPassed(run_context, "artifact")
                     /\ UNCHANGED <<artifact_versions, artifact_links, artifact_tags,
                                    materializers, run_links, artifact_names>>
    /\ UNCHANGED <<pc, locals, stepContext, step_runs, model_versions, stages,
                   pipeline_runs, default_materializer, flags, artifacts, written,
                   users, call, result>>

\* artifact.versions of get_artifact
VersionsOfArtifact(name) == {n.artifact : n \in {x \in artifact_names : x.name = name}}

\* __exit__, the second loop, second try: get_artifact, and delete_artifact
\* when the artifact has no versions left.
ExitDeleteArtifact ==
    /\ run_context.position = "artifact"
    /\ LET name == Head(run_context.artifact_versions).artifact
           rest == [run_context EXCEPT !.artifact_versions = Tail(@),
                                       !.position = "artifact_versions"]
       IN  IF name \in artifacts
           THEN /\ artifacts' = IF VersionsOfArtifact(name) = {}
                                THEN artifacts \ {name} ELSE artifacts
                /\ run_context' = rest
           ELSE /\ run_context' = KeyErrorPassed(rest, "artifact_versions")
                /\ UNCHANGED artifacts
    /\ UNCHANGED <<pipeline_runs, run_links, artifact_versions, artifact_names>>
    /\ UnchangedByContext

\* The steps the context's pipeline runs execute, and those of other tests
\* before it: one step with one output per run, in runs without pipeline.
CleanupConfig(r) ==
    StepConfig(<<OutputSignature("int", NoArtifactConfig)>>, GoodArgs,
               Returns(Scalar("int")), FALSE, FALSE, NoModel, {}, r, 1)

RunStepOfContext(e) ==
    /\ pc[e] = "idle"
    /\ e <= MaxExecs
    /\ \A f \in Execs : f < e => pc[f] = "done"
    /\ run_context.position \in {"none", "entering"}
    /\ Start(e, CleanupConfig(e))

NextCleanup ==
    \/ EnterContext
    \/ ListRuns
    \/ \E r \in Runs : run_context.position = "body" /\ delete_pipeline_run(r)
    \/ \E a \in artifact_versions :
           run_context.position = "body" /\ delete_artifact_version(a)
    \/ LeaveBody
    \/ ExitDeletePipelineRun
    \/ ExitDeleteArtifactVersion
    \/ ExitDeleteArtifact
    \/ \E e \in Execs :
        \/ RunStepOfContext(e)
        \/ LoadStep(e)
        \/ BindContext(e)
        \/ _prepare_model_context_for_step(e)
        \/ ParseInputs(e)
        \/ _link_pipeline_run_to_model_from_context(e)
        \/ CallEntrypoint(e)
        \/ PublishStepRunMetadata(e)
        \/ CleanupStepRun(e)
        \/ RunSuccessHook(e)
        \/ ValidateOutputs(e)
        \/ SaveArtifact(e)
        \/ LinkStepArtifactsToModel(e)
        \/ _link_pipeline_run_to_model_from_artifacts(e)
        \/ ClearContext(e)
        \/ PublishSuccessfulStepRun(e)
        \/ Exit(e)

SpecCleanup == Init /\ [][NextCleanup]_vars

\* ------------------------------------------------------------------ StepExecutor.execute
\* The step run exists and is RUNNING when the orchestrator constructs the
\* StepExecutor and calls execute(input_artifacts, output_artifacts, ...).
ExecutorStart(e, c) ==
    /\ pc[e] = "idle"
    /\ Goto(e, "execute_entrypoint")
    /\ cfg' = [cfg EXCEPT ![e] = c]
    /\ step_runs' = [step_runs EXCEPT ![e].status = "RUNNING",
                                      ![e].pipeline_run = c.pipeline_run,
                                      ![e].name = c.name]
    /\ pipeline_runs' = pipeline_runs \cup {c.pipeline_run}
    /\ UNCHANGED <<step_failed, exc, return_values, output_artifacts, resolved, trace,
                   stepContext, artifact_versions, artifact_links, model_versions,
                   run_links, stages, artifact_tags, materializers,
                   default_materializer, flags, artifact_names, artifacts,
                   run_context, written, users, call, result>>

\* The entrypoint, the materializers and the inputs are loaded, and
\* `return_values = step_entrypoint(**function_params)`: no try statement.
ExecuteEntrypoint(e) ==
    /\ pc[e] = "execute_entrypoint"
    /\ trace' = Logged(e, "entrypoint", "no context")
    /\ IF cfg[e].entrypoint.raises
       THEN /\ Raise(e, "StepException")
            /\ UNCHANGED return_values
       ELSE /\ return_values' = [return_values EXCEPT ![e] = cfg[e].entrypoint.value]
            /\ Goto(e, "execute_validate")
            /\ UNCHANGED exc
    /\ UNCHANGED <<cfg, step_failed, output_artifacts, resolved, stepContext, store,
                   stages, pipeline_runs, artifact_tags, materializers,
                   default_materializer, flags, artifact_names, artifacts,
                   run_context, written, users, call, result>>

\* `if len(output_annotations) > 0:` one annotation: the value is wrapped;
\* several: the value must be a sequence of as many items.
ExecuteCheckSequence(e) ==
    /\ pc[e] = "execute_validate"
    /\ LET n == Len(cfg[e].outputs)
           v == return_values[e]
       IN  IF n = 0
           THEN Goto(e, "execute_outputs") /\ UNCHANGED <<return_values, exc>>
           ELSE IF n = 1
           THEN /\ return_values' = [return_values EXCEPT ![e] = Tuple(<<v.type>>)]
                /\ Goto(e, "execute_outputs")
                /\ UNCHANGED exc
           ELSE IF v.type # "tuple" \/ Len(v.items) # n
           THEN Raise(e, "StepInterfaceError") /\ UNCHANGED return_values
           ELSE Goto(e, "execute_outputs") /\ UNCHANGED <<return_values, exc>>
    /\ UNCHANGED <<cfg, step_failed, output_artifacts, resolved, trace, stepContext,
                   store, stages, pipeline_runs, artifact_tags, materializers,
                   default_materializer, flags, artifact_names, artifacts,
                   run_context, written, users, call, result>>

\* The outputs of execution e a materializer has written.
WrittenBy(e) == {w \in written : w.step_run = e}

\* One turn of `for return_value, (output_name, output_type) in zip(...)`:
\* the type check of the output, then _store_output_artifact, whose
\* materializer writes the value (handle_return).
ExecuteStoreOutput(e) ==
    /\ pc[e] = "execute_outputs"
    /\ Cardinality(WrittenBy(e)) < Len(cfg[e].outputs)
    /\ LET i == Cardinality(WrittenBy(e)) + 1
       IN  IF ~IsInstance(return_values[e].items[i], cfg[e].outputs[i].resolved_annotation)
           THEN Raise(e, "StepInterfaceError") /\ UNCHANGED written
           ELSE /\ written' = written \cup {ArtifactId(e, i)}
                /\ UNCHANGED <<pc, exc>>
    /\ UNCHANGED <<cfg, step_failed, return_values, output_artifacts, resolved, trace,
                   stepContext, store, stages, pipeline_runs, artifact_tags,
                   materializers, default_materializer, flags, artifact_names,
                   artifacts, run_context, users, call, result>>

\* ... the materializer raising.
ExecuteStoreOutputFails(e) ==
    /\ pc[e] = "execute_outputs"
    /\ Cardinality(WrittenBy(e)) < Len(cfg[e].outputs)
    /\ IsInstance(return_values[e].items[Cardinality(WrittenBy(e)) + 1],
                  cfg[e].outputs[Cardinality(WrittenBy(e)) + 1].resolved_annotation)
    /\ Raise(e, "StoreError")
    /\ UNCHANGED <<cfg, step_failed, return_values, output_artifacts, resolved, trace,
                   stepContext, store, stages, pipeline_runs, artifact_tags,
                   materializers, default_materializer, flags, artifact_names,
                   artifacts, run_context, written, users, call, result>>

\* register_output_artifacts, one turn of its loop: create_artifact with the
\* name and the materializer of the output.
register_output_artifacts(e) ==
    /\ pc[e] = "execute_outputs"
    /\ Cardinality(WrittenBy(e)) = Len(cfg[e].outputs)
    /\ Len(output_artifacts[e]) < Len(cfg[e].outputs)
    /\ LET i == Len(output_artifacts[e]) + 1
           id == ArtifactId(e, i)
       IN  /\ artifact_versions' = artifact_versions \cup {id}
           /\ materializers' = materializers \cup
                  {[artifact |-> id,
                    materializer |-> cfg[e].output_config[i].materializer_source[1]]}
           /\ artifact_names' = artifact_names \cup
                  {[artifact |-> id, name |-> OutputName(cfg[e].outputs, i),
                    has_custom_name |-> FALSE]}
           /\ output_artifacts' = [output_artifacts EXCEPT ![e] = Append(@, id)]
    /\ UNCHANGED <<pc, cfg, step_failed, exc, return_values, resolved, trace,
                   stepContext, artifact_links, step_runs, model_versions, run_links,
                   stages, pipeline_runs, artifact_tags, default_materializer, flags,
                   artifacts, run_context, written, users, call, result>>

\* ... create_artifact raising.
RegisterOutputArtifactsFails(e) ==
    /\ pc[e] = "execute_outputs"
    /\ Cardinality(WrittenBy(e)) = Len(cfg[e].outputs)
    /\ Len(output_artifacts[e]) < Len(cfg[e].outputs)
    /\ Raise(e, "StoreError")
    /\ UNCHANGED <<cfg, step_failed, return_values, output_artifacts, resolved, trace,
                   stepContext, store, stages, pipeline_runs, artifact_tags,
                   materializers, default_materializer, flags, artifact_names,
                   artifacts, run_context, written, users, call, result>>

\* update_run_step(StepRunUpdateModel(output_artifacts=..., status=COMPLETED))
ExecuteUpdateRunStep(e) ==
    /\ pc[e] = "execute_outputs"
    /\ Cardinality(WrittenBy(e)) = Len(cfg[e].outputs)
    /\ Len(output_artifacts[e]) = Len(cfg[e].outputs)
    /\ step_runs' = [step_runs EXCEPT ![e].status = "COMPLETED",
                                      ![e].output_artifacts = output_artifacts[e]]
    /\ Goto(e, "returned")
    /\ UNCHANGED <<locals, stepContext, artifact_versions, artifact_links,
                   model_versions, run_links, stages, pipeline_runs, artifact_tags,
                   materializers, default_materializer, flags, artifact_names,
                   artifacts, run_context, written, users, call, result>>

\* Steps with no, one or two int outputs, each with one materializer, whose
\* entrypoint raises or returns None, an int, or a tuple of ints and strs.
ExecutorReturnValues ==
    {None, Scalar("int")}
        \cup {Tuple(items) : items \in SeqsUpTo(ScalarTypes, MaxOutputs + 1)}
ExecutorConfigs(r) ==
    {WithOutputConfig(
         StepConfig([i \in 1..n |-> OutputSignature("int", NoArtifactConfig)], <<>>, b,
                    FALSE, FALSE, NoModel, {}, r, 1),
         [i \in 1..n |-> OutputConfig(<<"BuiltInMaterializer">>, "none")]) :
        n \in 0..MaxOutputs,
        b \in {Raises} \cup {Returns(v) : v \in ExecutorReturnValues}}

\* The orchestrator executes the steps one after another.
RunExecutor(e) ==
    /\ pc[e] = "idle"
    /\ e <= MaxExecs
    /\ \A f \in Execs : f < e => pc[f] \in {"returned", "raised"}
    /\ \E c \in ExecutorConfigs(1) : ExecutorStart(e, c)

NextExecutor ==
    \E e \in Execs :
        \/ RunExecutor(e)
        \/ ExecuteEntrypoint(e)
        \/ ExecuteCheckSequence(e)
        \/ ExecuteStoreOutput(e)
        \/ ExecuteStoreOutputFails(e)
        \/ register_output_artifacts(e)
        \/ RegisterOutputArtifactsFails(e)
        \/ ExecuteUpdateRunStep(e)

SpecExecutor == Init /\ [][NextExecutor]_vars

\* ------------------------------------------------------------------ users, tokens, role assignments
UserIds == 1..MaxUsers
TeamIds == 1..MaxUsers

\* str(uuid) and UUID(text): ValueError for a text that is no UUID.
UuidText(id) == "uuid-" \o ToString(id)
ParseUUID(text) ==
    IF \E id \in 1..(MaxUsers + 1) : UuidText(id) = text
    THEN [raised |-> "none", uuid |-> CHOOSE id \in 1..(MaxUsers + 1) : UuidText(id) = text]
    ELSE [raised |-> "ValueError", uuid |-> 0]

\* An encoded token: the key it is signed with, whether it has expired, and
\* its subject claim ("missing": none).
JwtSecretKey == "jwt_secret_key"
Token(key, expired, sub) == [key |-> key, expired |-> expired, sub |-> sub]
Tokens ==
    {Token(k, x, sub) :
        k \in {JwtSecretKey, "another key"}, x \in BOOLEAN,
        sub \in {"missing", "not-a-uuid"} \cup {UuidText(id) : id \in 1..(MaxUsers + 1)}}

\* jwt.decode(token, jwt_secret_key, algorithms): JWTError for a signature
\* that does not verify and for a token that has expired.
jwt_decode(token) ==
    IF token.key # JwtSecretKey \/ token.expired
    THEN [raised |-> "JWTError", sub |-> "missing"]
    ELSE [raised |-> "none", sub |-> token.sub]

\* JWTToken.decode that lets the ValueError of UUID(subject) through.
DecodeWithoutSubjectCheck(token) ==
    IF jwt_decode(token).raised # "none" \/ jwt_decode(token).sub = "missing"
    THEN [raised |-> "AuthorizationException", user_id |-> 0]
    ELSE [raised |-> ParseUUID(jwt_decode(token).sub).raised,
          user_id |-> ParseUUID(jwt_decode(token).sub).uuid]

\* JWTToken.decode
JWTToken_decode(token) ==
    IF jwt_decode(token).raised # "none"
    THEN [raised |-> "AuthorizationException", user_id |-> 0]
    ELSE IF jwt_decode(token).sub = "missing"
    THEN [raised |-> "AuthorizationException", user_id |-> 0]
    ELSE IF ParseUUID(jwt_decode(token).sub).raised = "ValueError"
    THEN [raised |-> "AuthorizationException", user_id |-> 0]
    ELSE [raised |-> "none", user_id |-> ParseUUID(jwt_decode(token).sub).uuid]

\* zen_store.get_user(user_name_or_id=id): KeyError when there is none.
User(id, active) == [id |-> id, active |-> active]
NoUser == User(0, FALSE)
get_user(store_users, id) ==
    IF \E u \in store_users : u.id = id
    THEN [raised |-> "none", user |-> CHOOSE u \in store_users : u.id = id]
    ELSE [raised |-> "KeyError", user |-> NoUser]

\* What a call gives: a value returned (NoUser: None) or an exception.
Returned(value) == [returned |-> TRUE, raised |-> "none", value |-> value]
Raised(exception) == [returned |-> FALSE, raised |-> exception]

\* UserModel.verify_access_token
verify_access_token(store_users, token) ==
    LET access_token == JWTToken_decode(token)
        got == get_user(store_users, access_token.user_id)
    IN  IF access_token.raised = "AuthorizationException" THEN Returned(NoUser)
        ELSE IF access_token.raised # "none" THEN Raised(access_token.raised)
        ELSE IF got.raised = "KeyError" THEN Returned(NoUser)
        ELSE IF access_token.user_id = got.user.id /\ got.user.active
        THEN Returned(got.user)
        ELSE Returned(NoUser)

\* The fields of a RoleAssignmentModel as given: 0 stands for None.
RoleAssignmentValues ==
    [role_id : {1}, project_id : {0, 1}, team_id : {0} \cup TeamIds,
     user_id : {0} \cup UserIds]

\* A validator that only asks for one of user_id and team_id.
EnsureSomeEntity(values) ==
    IF ~(values.user_id # 0 \/ values.team_id # 0)
    THEN Raised("ValueError")
    ELSE Returned(values)

\* RoleAssignmentModel.ensure_single_entity, the root validator: a UUID is
\* truthy, None is not.
ensure_single_entity(values) ==
    IF values.user_id # 0 /\ values.team_id # 0
    THEN Raised("ValueError")
    ELSE IF ~(values.user_id # 0 \/ values.team_id # 0)
    THEN Raised("ValueError")
    ELSE Returned(values)

\* The stores: each user is absent, active or inactive.
UserStores ==
    {S \in SUBSET {User(id, a) : id \in UserIds, a \in BOOLEAN} :
        \A u, v \in S : u.id = v.id => u = v}

\* A call of UserModel.verify_access_token, or the construction of a
\* RoleAssignmentModel, is about to be made.
InitModels ==
    /\ InitRunner
    /\ users \in UserStores
    /\ \/ \E t \in Tokens : call = [op |-> "verify_access_token", token |-> t]
       \/ \E v \in RoleAssignmentValues :
              users = {} /\ call = [op |-> "RoleAssignmentModel", values |-> v]
    /\ result = NoResult

UnchangedByModels ==
    UNCHANGED <<pc, locals, stepContext, store, stages, pipeline_runs, artifact_tags,
                materializers, default_materializer, flags, artifact_names, artifacts,
                run_context, written, users, call>>

VerifyAccessToken ==
    /\ call.op = "verify_access_token"
    /\ result = NoResult
    /\ result' = verify_access_token(users, call.token)
    /\ UnchangedByModels

ConstructRoleAssignment ==
    /\ call.op = "RoleAssignmentModel"
    /\ result = NoResult
    /\ result' = ensure_single_entity(call.values)
    /\ UnchangedByModels

NextModels == VerifyAccessToken \/ ConstructRoleAssignment

SpecModels == InitModels /\ [][NextModels]_vars

\* ------------------------------------------------------------------ names of artifacts
\* Steps of several pipelines, and of runs without pipeline, each in a run
\* of its own: one int output with or without a custom name, or two outputs.
PipelineNames == {"a", "a::b", "unlisted"}
StepNames == {"step", "b::step"}
NamedConfig(c, pipeline, step_name) == [c EXCEPT !.pipeline = pipeline, !.name = step_name]
NameConfigs(r) ==
    {NamedConfig(StepConfig(<<OutputSignature("int", ac)>>, GoodArgs,
                            Returns(Scalar("int")), FALSE, FALSE, NoModel, {}, r, 1),
                 p, n) :
        ac \in {NoArtifactConfig, NamedArtifactConfig("custom")},
        p \in {NoPipeline} \cup {Pipeline(x) : x \in PipelineNames},
        n \in StepNames}
    \cup
    {NamedConfig(StepConfig(<<OutputSignature("int", NoArtifactConfig),
                             OutputSignature("int", NamedArtifactConfig("custom"))>>,
                            GoodArgs, Returns(Tuple(<<"int", "int">>)),
                            FALSE, FALSE, NoModel, {}, r, 1),
                 Pipeline("a"), "step")}

RunNamedStep(e) ==
    /\ pc[e] = "idle"
    /\ e <= MaxExecs
    /\ \A f \in Execs : f < e => pc[f] = "done"
    /\ \E c \in NameConfigs(e) : Start(e, c)

NextNames ==
    \E e \in Execs :
        \/ RunNamedStep(e)
        \/ LoadStep(e)
        \/ BindContext(e)
        \/ _prepare_model_context_for_step(e)
        \/ ParseInputs(e)
        \/ _link_pipeline_run_to_model_from_context(e)
        \/ CallEntrypoint(e)
        \/ PublishStepRunMetadata(e)
        \/ CleanupStepRun(e)
        \/ RunSuccessHook(e)
        \/ ValidateOutputs(e)
        \/ SaveArtifact(e)
        \/ LinkStepArtifactsToModel(e)
        \/ _link_pipeline_run_to_model_from_artifacts(e)
        \/ ClearContext(e)
        \/ PublishSuccessfulStepRun(e)
        \/ Exit(e)

SpecNames == Init /\ [][NextNames]_vars

\* ------------------------------------------------------------------ claims
EntrypointCalled(e) == Count(e, "entrypoint") > 0
EntrypointRaised(e) == EntrypointCalled(e) /\ cfg[e].entrypoint.raises
EntrypointReturned(e) == EntrypointCalled(e) /\ ~cfg[e].entrypoint.raises
RunRaised(e) == pc[e] \in {"raised", "failed"}
ArtifactsOf(e) == {a \in artifact_versions : a.step_run = e}

\* C1: once the entrypoint has raised, run only goes on through its except
\* and finally blocks and leaves by raising: it never reaches the publication
\* of COMPLETED nor returns, an exception is in flight when it leaves, and the
\* StepRun, never COMPLETED, is FAILED once the caller has handled the exception.
C1_RaisingStepFails ==
    \A e \in Execs :
        EntrypointRaised(e) =>
            /\ pc[e] \in {"except", "finally", "cleanup", "clear", "raised", "failed"}
            /\ step_runs[e].status # "COMPLETED"
            /\ (RunRaised(e) => exc[e] # "none")
            /\ (pc[e] = "failed" => step_runs[e].status = "FAILED")

C1_Witness ==
    \E e \in Execs :
        /\ EntrypointRaised(e)
        /\ pc[e] = "failed"
        /\ exc[e] = "StepException"
        /\ step_runs[e].status = "FAILED"

\* C2: when the entrypoint raised, the exception that leaves run is the
\* entrypoint's own exception, whatever the failure hook, the publication of
\* the step-run metadata and cleanup_step_run did.
C2_StepExceptionLeavesRun ==
    \A e \in Execs :
        (EntrypointRaised(e) /\ RunRaised(e)) => exc[e] = "StepException"

\* C3: when the entrypoint raised and a failure hook is declared, the hook has
\* been run exactly once when the except block is left, and the exception in
\* flight at that point is the entrypoint's, whatever the hook did.
C3_FailureHookNeverMasks ==
    \A e \in Execs :
        (EntrypointRaised(e) /\ cfg[e].failure_hook_source /\ pc[e] # "except") =>
            /\ Count(e, "failure_hook") = 1
            /\ (pc[e] = "finally" => exc[e] = "StepException")

\* C4: when the entrypoint returned, the success hook was run, the outputs are
\* valid and no output failed to be stored, the run ends with the StepRun
\* COMPLETED and the stored artifacts as its outputs, whatever the hook did.
C4_SuccessHookKeepsOutcome ==
    \A e \in Execs :
        ( /\ pc[e] \in {"returned", "failed"}
          /\ EntrypointReturned(e)
          /\ Count(e, "success_hook") = 1
          /\ ~_validate_outputs(cfg[e].entrypoint.value, cfg[e].outputs).error
          /\ exc[e] # "StoreError" ) =>
            /\ step_runs[e].status = "COMPLETED"
            /\ Len(step_runs[e].output_artifacts) = Len(cfg[e].outputs)
            /\ \A i \in 1..Len(cfg[e].outputs) :
                   step_runs[e].output_artifacts[i] \in ArtifactsOf(e)

\* C5: once run has ended, by returning or by raising, no StepContext is live
\* in its process.
C5_ContextClearedAfterRun ==
    \A e \in Execs :
        pc[e] \in {"returned", "raised", "failed"} => stepContext[cfg[e].process] = 0

\* C6: when run ends by raising, the store holds no artifact version produced
\* by this step run.
C6_NoArtifactsAfterFailure ==
    \A e \in Execs : RunRaised(e) => ArtifactsOf(e) = {}

\* C10: the entrypoint is called at most once; it has been called exactly once
\* in every execution that got past input resolution and in none that failed
\* before; and each time it is called the live StepContext is the one bound
\* for this step run.
C10_EntrypointOnceInOwnContext ==
    \A e \in Execs :
        /\ Count(e, "entrypoint") <= 1
        /\ (pc[e] \in {"except", "finally", "cleanup", "success_hook", "validate",
                       "store", "link_artifacts", "clear", "publish", "returned"}
                => Count(e, "entrypoint") = 1)
        /\ (RunRaised(e) =>
                (Count(e, "entrypoint") = 0
                    <=> exc[e] \in {"LoadError", "RuntimeError", "TypeError"}))
        /\ \A i \in 1..Len(trace[e]) :
               trace[e][i].op = "entrypoint" => trace[e][i].arg = "own context"

\* The earlier execution died in its finally block, after an output was
\* stored and before the context was cleared; the next one calls its entrypoint.
C10_Witness ==
    \E e \in Execs :
        /\ e > 1
        /\ step_runs[e - 1].status = "FAILED"
        /\ ArtifactsOf(e - 1) # {}
        /\ Count(e, "entrypoint") = 1
        /\ trace[e][1] = Event("entrypoint", "own context")

\* The versions of model m created for pipeline run r.
CreatedFor(r, m) == {v \in model_versions : v.model = m /\ v.run = r}

\* What the "create new version" resolutions of model m made by the steps of
\* pipeline run r have returned.
NewVersionResolutions(r, m) ==
    {x.mv : x \in {y \in UNION {resolved[e] : e \in {f \in Execs : cfg[f].pipeline_run = r}} :
                      y.ref = NewVersion(m)}}

\* C7: however the "create new version" resolutions of one model name made by
\* the steps of one pipeline run interleave (different steps, and the context
\* preparation, the linking from the config and the linking from the outputs
\* of one step), at most one version is created for the run, and as soon as
\* one resolution has returned exactly one exists and every resolution has
\* returned it.
C7_OneNewVersionPerRun ==
    \A r \in Runs, m \in ModelNames :
        /\ Cardinality(CreatedFor(r, m)) <= 1
        /\ NewVersionResolutions(r, m) # {} =>
               /\ Cardinality(CreatedFor(r, m)) = 1
               /\ NewVersionResolutions(r, m) = CreatedFor(r, m)

\* Two steps of one run are in flight together, both bound to a new version of
\* the same model: one has prepared its context, the other has also linked
\* from its configuration and is storing its outputs. One version exists.
C7_Witness ==
    \E e, f \in Execs, m \in ModelNames :
        /\ e # f
        /\ pc[e] = "link_context" /\ pc[f] = "store"
        /\ cfg[e].pipeline_run = cfg[f].pipeline_run
        /\ cfg[e].model = NewVersion(m) /\ cfg[f].model = NewVersion(m)
        /\ Len(cfg[f].outputs) > 0
        /\ resolved[e] # {} /\ resolved[e] = resolved[f]
        /\ Cardinality(CreatedFor(cfg[e].pipeline_run, m)) = 1

\* The records that link pipeline runs to model version v.
LinksOf(v) == {l \in BagToSet(run_links) : l.model_version = v}

\* C8: linking is idempotent: no link of a pipeline run to a model version is
\* recorded twice, so a version has as many link records as runs linked to
\* it, and when a step returns, each version it resolved is linked to its run
\* exactly once.
C8_RunLinkedOnce ==
    /\ \A l \in BagToSet(run_links) : CopiesIn(l, run_links) = 1
    /\ \A v \in model_versions :
           CopiesIn(v, BagOfAll(LAMBDA l : l.model_version, run_links))
               = Cardinality({l.pipeline_run : l \in LinksOf(v)})
    /\ \A e \in Execs :
           pc[e] = "returned" =>
               \A x \in resolved[e] :
                   CopiesIn(RunLink(cfg[e].pipeline_run, x.mv), run_links) = 1

\* Two runs of a two-step pipeline: the last step, bound to a model by its own
\* configuration and by an output, returns, and the version has exactly the
\* two runs linked to it.
C8_Witness ==
    \E v \in model_versions :
        /\ pc[4] = "returned"
        /\ step_runs[1].pipeline_run = 1 /\ step_runs[2].pipeline_run = 1
        /\ step_runs[3].pipeline_run = 2 /\ step_runs[4].pipeline_run = 2
        /\ cfg[4].model # NoModel
        /\ \E i \in 1..Len(cfg[4].outputs) :
               cfg[4].outputs[i].artifact_config.model # NoModel
        /\ \A x \in resolved[4] : x.mv = v
        /\ Cardinality(resolved[4]) >= 1
        /\ {l.pipeline_run : l \in LinksOf(v)} = {1, 2}
        /\ CopiesIn(v, BagOfAll(LAMBDA l : l.model_version, run_links)) = 2

\* The pipeline run r is linked to some version of the model a reference names.
LinkedToModel(r, ref) ==
    \E v \in VersionsOf(model_versions, ref.name) : BagIn(RunLink(r, v), run_links)

\* C9: when a step has returned, its pipeline run is linked to a version of
\* the model of the step's own binding, to a version of the model of every
\* output whose artifact config names a model, whatever the position of the
\* output and the configs of the others, and to the version of every external
\* input artifact.
C9_RunLinkedToEveryTouchedModel ==
    \A e \in Execs :
        pc[e] = "returned" =>
            /\ cfg[e].model # NoModel => LinkedToModel(cfg[e].pipeline_run, cfg[e].model)
            /\ \A i \in 1..Len(cfg[e].outputs) :
                   LET artifact_config == cfg[e].outputs[i].artifact_config
                   IN  artifact_config.present /\ artifact_config.model # NoModel =>
                           LinkedToModel(cfg[e].pipeline_run, artifact_config.model)
            /\ \A x \in cfg[e].external_input_artifacts :
                   BagIn(RunLink(cfg[e].pipeline_run, x), run_links)

\* An argument of the entrypoint has no value, or its input artifact is of an
\* incompatible type.
BadArgs(e) ==
    \E i \in 1..Len(cfg[e].args) :
        ArgSource(cfg[e].args[i]) \in {"incompatible", "missing"}

\* C11: a step whose inputs cannot be resolved never gets past input
\* resolution, and a step whose return value is invalid never gets past output
\* validation: run leaves by raising (the resolution error, when loading
\* succeeded), the StepRun is never COMPLETED and it is FAILED once the caller
\* has handled the exception, as for an exception of the entrypoint.
C11_ResolutionAndValidationErrorsFail ==
    \A e \in Execs :
        /\ BadArgs(e) =>
               /\ pc[e] \in {"load", "bind", "prepare_model", "parse_inputs",
                             "raised", "failed"}
               /\ (RunRaised(e) => exc[e] \in {"LoadError", "RuntimeError", "TypeError"})
        /\ (EntrypointReturned(e)
              /\ _validate_outputs(cfg[e].entrypoint.value, cfg[e].outputs).error) =>
               /\ pc[e] \in {"finally", "cleanup", "success_hook", "validate",
                             "raised", "failed"}
               /\ (RunRaised(e) => exc[e] # "none")
        /\ (BadArgs(e) \/ exc[e] = "StepInterfaceError") =>
               /\ step_runs[e].status # "COMPLETED"
               /\ (pc[e] = "failed" => step_runs[e].status = "FAILED")

\* An input artifact of an incompatible type: the TypeError has left run, the
\* entrypoint was not called, and the StepRun is FAILED.
C11_Witness ==
    \E e \in Execs :
        /\ BadArgs(e)
        /\ pc[e] = "failed"
        /\ exc[e] = "TypeError"
        /\ ~EntrypointCalled(e)
        /\ step_runs[e].status = "FAILED"

\* C12: when run has ended, by returning or by raising, the step-run metadata
\* of the stack has been published for the step run.
C12_MetadataAlwaysPublished ==
    \A e \in Execs :
        pc[e] \in {"returned", "raised", "failed"} => step_runs[e].metadata

\* Several outputs are declared and the value returned is no list or tuple, or
\* one of another length.
ArityMismatch(e) ==
    /\ Len(cfg[e].outputs) > 1
    /\ \/ cfg[e].entrypoint.value.type # "tuple"
       \/ Len(cfg[e].entrypoint.value.items) # Len(cfg[e].outputs)

C14_NoOutputsDeclared ==
    \A e \in Execs :
        (EntrypointReturned(e) /\ Len(cfg[e].outputs) = 0) =>
            /\ ArtifactsOf(e) = {}
            /\ IF cfg[e].entrypoint.value # None
               THEN /\ pc[e] \in {"finally", "cleanup", "success_hook", "validate",
                                  "raised", "failed"}
                    /\ step_runs[e].status # "COMPLETED"
                    /\ (RunRaised(e) => exc[e] # "none")
                    /\ (pc[e] = "failed" => step_runs[e].status = "FAILED")
               ELSE /\ exc[e] # "StepInterfaceError"
                    /\ (pc[e] = "returned" =>
                           /\ step_runs[e].status = "COMPLETED"
                           /\ step_runs[e].output_artifacts = <<>>)

\* No output declared and an int returned: StepInterfaceError, FAILED.
C14_Witness ==
    \E e \in Execs :
        /\ EntrypointReturned(e)
        /\ Len(cfg[e].outputs) = 0
        /\ cfg[e].entrypoint.value = Scalar("int")
        /\ pc[e] = "failed"
        /\ exc[e] = "StepInterfaceError"
        /\ step_runs[e].status = "FAILED"

\* The value returned has the declared arity and one of its items is not of
\* the declared type of its output.
TypeMismatch(e) ==
    LET n == Len(cfg[e].outputs)
        v == cfg[e].entrypoint.value
        values == IF n = 1 THEN <<v.type>> ELSE v.items
    IN  /\ n >= 1
        /\ ~ArityMismatch(e)
        /\ \E i \in 1..n : values[i] # cfg[e].outputs[i].resolved_annotation
                               /\ cfg[e].outputs[i].resolved_annotation # "Any"

C16_CompletedAfterStoringAndLinking ==
    \A e \in Execs :
        /\ step_runs[e].status = "COMPLETED" => pc[e] \in {"returned", "done"}
        /\ step_runs[e].status = "COMPLETED" =>
               /\ \A i \in 1..Len(step_runs[e].output_artifacts) :
                      step_runs[e].output_artifacts[i] = ArtifactId(e, i)
               /\ ArtifactsOf(e) =
                      {step_runs[e].output_artifacts[i] :
                           i \in 1..Len(step_runs[e].output_artifacts)}
        /\ pc[e] = "returned" =>
               /\ step_runs[e].status = "COMPLETED"
               /\ Len(step_runs[e].output_artifacts) = Len(cfg[e].outputs)
               /\ \A x \in resolved[e] :
                      BagIn(RunLink(cfg[e].pipeline_run, x.mv), run_links)
               /\ \A x \in cfg[e].external_input_artifacts :
                      BagIn(RunLink(cfg[e].pipeline_run, x), run_links)

\* A step bound to a model, with an external input artifact, has returned: its
\* outputs are in the map of the COMPLETED StepRun.
C16_Witness ==
    \E e \in Execs :
        /\ pc[e] = "returned"
        /\ Len(cfg[e].outputs) = 2
        /\ Len(step_runs[e].output_artifacts) = 2
        /\ resolved[e] # {}
        /\ cfg[e].external_input_artifacts # {}
        /\ step_runs[e].status = "COMPLETED"

\* The model reference that applies to a step: its own, else its pipeline's.
DeclaredModel(e) == IF cfg[e].model # NoModel THEN cfg[e].model ELSE cfg[e].pipeline_model

ContextPrepared(e) ==
    pc[e] \in {"parse_inputs", "link_context", "entrypoint", "finally", "cleanup",
               "success_hook", "validate", "store", "link_artifacts", "clear",
               "publish", "returned"}

\* C17: once the context of a step is prepared, the model version resolved for
\* it is one of the model the step declares, or of the model of its pipeline
\* when the step declares none (none at all when there is neither); when both
\* declare a model the step's is taken and the step goes on.
C17_StepModelBeforePipelineModel ==
    \A e \in Execs :
        ContextPrepared(e) =>
            IF DeclaredModel(e) = NoModel THEN resolved[e] = {}
            ELSE \E v \in model_versions :
                    /\ v.model = DeclaredModel(e).name
                    /\ resolved[e] = {[ref |-> DeclaredModel(e), mv |-> v]}

\* Two steps of one run of a pipeline with model "bar": the first declared
\* "foo" and got a version of it, the second declares nothing and is called
\* with a version of "bar".
C17_Witness ==
    /\ pc[2] = "finally"
    /\ step_runs[1].pipeline_run = 1 /\ step_runs[2].pipeline_run = 1
    /\ step_runs[1].status = "COMPLETED"
    /\ cfg[2].model = NoModel
    /\ cfg[2].pipeline_model = NewVersion("bar")
    /\ \E v \in model_versions :
           v.model = "bar" /\ resolved[2] = {[ref |-> NewVersion("bar"), mv |-> v]}
    /\ \E v \in model_versions : v.model = "foo" /\ v.run = 1

\* Per model, each pipeline run has created at most one version, and the
\* versions are numbered 1, 2, ... in the order of the runs that created them;
\* a step whose reference names no version has, once its context is prepared,
\* exactly one version created for its run.
OneVersionPerRunInOrder ==
    /\ \A m \in VersionedModelNames, r \in Runs : Cardinality(CreatedFor(r, m)) <= 1
    /\ \A m \in VersionedModelNames :
           \A v \in VersionsOf(model_versions, m) :
               v.number = Cardinality({w \in VersionsOf(model_versions, m) : w.run <= v.run})
    /\ \A e \in Execs :
           (ContextPrepared(e) /\ DeclaredModel(e) # NoModel) =>
               Cardinality(CreatedFor(cfg[e].pipeline_run, DeclaredModel(e).name)) = 1

\* A version is only created for a step that prepares its context with a
\* reference that names no version, as the first of its run for that model,
\* numbered one higher than the versions the model had.
CreatesNextVersion ==
    \A v \in model_versions' \ model_versions :
        /\ \E e \in Execs :
               /\ pc[e] = "prepare_model"
               /\ DeclaredModel(e) = NewVersion(v.model)
               /\ v.run = cfg[e].pipeline_run
        /\ CreatedFor(v.run, v.model) = {}
        /\ v.number = Cardinality(VersionsOf(model_versions, v.model)) + 1
        /\ model_versions' = model_versions \cup {v}

LinkedArtifacts(v, name) ==
    {l.artifact : l \in {k \in artifact_links : k.model_version = v /\ k.name = name}}

FirstVersion == [model |-> "foo", number |-> 1, run |-> 1]

\* C19: whether the runs fail or not after their producer has stored its
\* output, the runs that refer to version 1 by its name create no further
\* version, all links are under the one output name of version 1 and are to
\* stored artifact versions, and from the call of the consumer of the n-th run
\* until the producer of the next run, n artifact versions are linked.
C19_ArtifactLinksAccumulate ==
    /\ model_versions \subseteq {FirstVersion}
    /\ \A l \in artifact_links :
           l.model_version = FirstVersion /\ l.name = 1 /\ l.artifact \in artifact_versions
    /\ \A e \in Execs :
           ( /\ IsConsumer(e)
             /\ pc[e] \notin {"idle", "load", "bind", "prepare_model", "parse_inputs",
                              "link_context"}
             /\ (e + 1 \in Execs => pc[e + 1] = "idle") ) =>
               Cardinality(LinkedArtifacts(FirstVersion, 1)) = PipelineRunOf(e)

\* Both runs failed in their consumer; the second referred to version 1 by
\* name, and two artifact versions are linked to it.
C19_Witness ==
    /\ step_runs[2].status = "FAILED"
    /\ step_runs[1].status = "COMPLETED"
    /\ pc[4] = "failed"
    /\ cfg[4].pipeline_model = Numbered("foo", 1)
    /\ model_versions = {FirstVersion}
    /\ Cardinality(LinkedArtifacts(FirstVersion, 1)) = 2

RefersToProduction(r) ==
    \E e \in Execs : /\ step_runs[e].pipeline_run = r
                     /\ step_runs[e].pipeline_model.version = "production"
NewRunLinks == BagToSet(run_links') \ BagToSet(run_links)

\* A run that created a version of its own is linked to that version alone.
CreatorLinkedToOwnVersion ==
    \A l \in BagToSet(run_links) :
        ~RefersToProduction(l.pipeline_run) => l.model_version.run = l.pipeline_run

\* Each resolution of the stage gives the version that carries the stage when
\* it is made, and this is the version the run is then linked to (besides the
\* version its external artifact was taken from, when the stage was resolved
\* for it).
StageResolvedWhenLinked ==
    \A e \in Execs :
        /\ \A x \in resolved'[e] \ resolved[e] :
               x.ref.version = "production" => Staged(x.mv, "production") \in stages
        /\ \A l \in NewRunLinks :
               (cfg[e].pipeline_run = l.pipeline_run
                    /\ cfg[e].pipeline_model.version = "production") =>
                   \/ Staged(l.model_version, "production") \in stages
                   \/ l.model_version \in cfg[e].external_input_artifacts
        /\ (pc[e] = "idle" /\ pc'[e] = "load") =>
               \A v \in cfg'[e].external_input_artifacts :
                   Staged(v, "production") \in stages

\* C21: a reference to a model by the stage "production" resolves, each time
\* it is resolved, to the version that carries the stage at that moment: the
\* run that refers to it is linked to the promoted version even when a newer
\* version exists, and a run that created a newer version, which is not
\* promoted, is linked to that newer version alone.
C21_StageAliasResolvedLive ==
    []CreatorLinkedToOwnVersion /\ [][StageResolvedWhenLinked]_vars

\* A run that refers to production is linked to the promoted version 1 while
\* version 2 exists, whose run is linked to version 2 alone.
C21_Witness ==
    \E r \in pipeline_runs, v \in model_versions, w \in model_versions :
        /\ RefersToProduction(r)
        /\ v.number = 1 /\ w.number = 2 /\ w.run < r
        /\ Staged(v, "production") \in stages
        /\ LinksOf(v) = {RunLink(v.run, v), RunLink(r, v)}
        /\ LinksOf(w) = {RunLink(w.run, w)}
        /\ \A e \in Execs : step_runs[e].pipeline_run = r => pc[e] = "done"

\* ------------------------------------------------------------------ C22
\* No model version refers to a pipeline run or to an artifact version that
\* the store does not hold, and every link is a link of a model version.
NoDanglingReference ==
    /\ \A l \in BagToSet(run_links) :
           l.pipeline_run \in pipeline_runs /\ l.model_version \in model_versions
    /\ \A l \in artifact_links :
           l.artifact \in artifact_versions /\ l.model_version \in model_versions

\* The deletion of a pipeline run takes the run off every model version that
\* linked it, and nothing else off any of them.
RunDeletionUnlinksRun ==
    \A r \in pipeline_runs \ pipeline_runs' :
        /\ model_versions' = model_versions
        /\ artifact_links' = artifact_links
        /\ BagToSet(run_links') = {l \in BagToSet(run_links) : l.pipeline_run # r}

\* C22: after any sequence of step executions, run deletions and artifact
\* version deletions no model version refers to a deleted run or artifact
\* version; deleting a pipeline run removes it from the runs of every model
\* version that linked it and leaves the model versions in place.
C22_NoDanglingReference ==
    []NoDanglingReference /\ [][RunDeletionUnlinksRun]_vars

\* A run that was linked to the version it created has been deleted: the
\* version is still there, with no run.
C22_Witness ==
    \E e \in Execs, v \in model_versions :
        /\ step_runs[e].status = "DELETED"
        /\ step_runs[e].pipeline_run \notin pipeline_runs
        /\ v.run = step_runs[e].pipeline_run
        /\ LinksOf(v) = {}
        /\ \E l \in artifact_links : l.model_version = v

\* ------------------------------------------------------------------ C23
\* The artifact versions of the producing run of a that are linked to v.
LinkedArtifactsOfRun(links, r, v) ==
    {l.artifact : l \in {x \in links : x.model_version = v
                                         /\ ProducingRun(x.artifact) = r}}

\* The deletion of an artifact version: the model versions stay, the links
\* of the other artifact versions stay, and the producing run stays a run of
\* a model version exactly if it was not linked to it through this artifact
\* version alone.
ArtifactDeletionKeepsOthers ==
    \A a \in artifact_versions \ artifact_versions' :
        /\ model_versions' = model_versions
        /\ artifact_links' = {l \in artifact_links : l.artifact # a}
        /\ \A l \in BagToSet(run_links) :
               l \in BagToSet(run_links') <=>
                   ~(/\ l.pipeline_run = ProducingRun(a)
                     /\ LinkedArtifactsOfRun(artifact_links, l.pipeline_run,
                                             l.model_version) = {a})
        /\ BagToSet(run_links') \subseteq BagToSet(run_links)

\* C23: deleting one artifact version removes the links of that artifact
\* version alone and no model version; its producing run stays in the runs of
\* a model version when another artifact version of the run is still linked
\* to that version, and leaves them when the deleted one was the only one.
C23_ArtifactDeletion == [][ArtifactDeletionKeepsOthers]_vars

\* Of the two outputs of step run 1 one has been deleted, and the run is
\* still a run of the version the other is linked to; both outputs of step
\* run 2 have been deleted, and the run, which is still there, is a run of
\* no model version.
C23_Witness ==
    /\ step_runs[1].status = "COMPLETED" /\ step_runs[2].status = "COMPLETED"
    /\ ArtifactId(1, 1) \notin artifact_versions
    /\ \E l \in artifact_links :
           /\ l.artifact = ArtifactId(1, 2)
           /\ RunLink(step_runs[1].pipeline_run, l.model_version) \in BagToSet(run_links)
    /\ ArtifactId(2, 1) \notin artifact_versions
    /\ ArtifactId(2, 2) \notin artifact_versions
    /\ step_runs[2].pipeline_run \in pipeline_runs
    /\ \A l \in BagToSet(run_links) : l.pipeline_run # step_runs[2].pipeline_run

\* ------------------------------------------------------------------ C24
\* PENDING, then RUNNING, then COMPLETED, FAILED or CACHED.
StatusRank(status) ==
    CASE status = "PENDING" -> 0
      [] status = "RUNNING" -> 1
      [] status \in {"COMPLETED", "FAILED", "CACHED"} -> 2
Terminal(status) == StatusRank(status) = 2

StatusMovesForward ==
    \A e \in Execs :
        /\ StatusRank(step_runs'[e].status) >= StatusRank(step_runs[e].status)
        /\ Terminal(step_runs[e].status) =>
               /\ step_runs'[e].status = step_runs[e].status
               /\ step_runs'[e].output_artifacts = step_runs[e].output_artifacts

\* C24: the status of a step run only moves forward, from PENDING to RUNNING
\* to one of COMPLETED, FAILED and CACHED; once it is one of these three, no
\* later operation of the runner changes the status or the map of the output
\* artifacts.
C24_StatusMovesForward == [][StatusMovesForward]_vars

\* A step run was COMPLETED with its two outputs, and the process has gone
\* through a second execution since, which FAILED.
C24_Witness ==
    /\ step_runs[1].status = "COMPLETED"
    /\ Len(step_runs[1].output_artifacts) = 2
    /\ step_runs[2].status = "FAILED"
    /\ pc[2] = "done"

\* ------------------------------------------------------------------ C25
\* What the store keeps of an artifact version it holds stays as it is.
ArtifactVersionUnchanged(a) ==
    /\ TagsOf(a)' = TagsOf(a)
    /\ {m \in materializers' : m.artifact = a} = {m \in materializers : m.artifact = a}

\* C25: an artifact version is immutable once stored: no operation of the
\* store edits it, its tags and metadata included; deletion alone changes it,
\* and removes its links with it.
C25_ArtifactVersionImmutable ==
    [][/\ \A a \in artifact_versions \cap artifact_versions' : ArtifactVersionUnchanged(a)
       /\ \A a \in artifact_versions \ artifact_versions' :
              \A l \in artifact_links' : l.artifact # a]_vars

\* ------------------------------------------------------------------ C26
\* run has got past _parse_inputs.
InputsParsed(e) ==
    pc[e] \in {"link_context", "entrypoint", "except", "finally", "cleanup",
               "success_hook", "validate", "store", "link_artifacts", "clear",
               "publish", "returned"}
\* _parse_inputs has raised, for want of a value for an argument.
MissingInput(e) == pc[e] \in {"raised", "failed"} /\ exc[e] = "RuntimeError"
Unsupplied(a) == a.annotation # "StepContext" /\ a.artifact = "none" /\ ~a.parameter

\* C26: every declared argument of the entrypoint gets its value from one
\* source, the first there is of: the live step context when the argument is
\* annotated StepContext, the input artifact of its name, the parameter of its
\* name; when no source supplies an argument, run fails with a missing-input
\* error before the entrypoint is invoked.
C26_OneSourcePerArgument ==
    \A e \in Execs :
        LET args == cfg[e].args
            function_params == _parse_inputs(args).function_params
        IN  /\ InputsParsed(e) =>
                   /\ Len(function_params) = Len(args)
                   /\ \A i \in 1..Len(args) :
                          function_params[i] =
                              IF args[i].annotation = "StepContext" THEN "context"
                              ELSE IF args[i].artifact # "none" THEN "artifact"
                              ELSE "parameter"
                   /\ \A i \in 1..Len(args) : ~Unsupplied(args[i])
            /\ (\E i \in 1..Len(args) : Unsupplied(args[i])) =>
                   /\ ~EntrypointCalled(e)
                   /\ pc[e] \in {"idle", "load", "bind", "prepare_model",
                                 "parse_inputs", "raised", "failed"}
                   /\ (pc[e] \in {"raised", "failed"} /\ exc[e] # "LoadError")
                          => MissingInput(e)

\* An entrypoint has been called with an argument from each of the three
\* sources, one of them an argument that an input artifact and a parameter
\* both name; an earlier execution has failed before its entrypoint was
\* called.
C26_Witness ==
    \E e \in Execs, f \in Execs :
        /\ EntrypointCalled(e)
        /\ {ArgSource(cfg[e].args[i]) : i \in 1..Len(cfg[e].args)}
               = {"context", "artifact", "parameter"}
        /\ \E i \in 1..Len(cfg[e].args) :
               cfg[e].args[i].artifact # "none" /\ cfg[e].args[i].parameter
        /\ step_runs[f].status = "FAILED"
        /\ step_runs[f].metadata = FALSE
        /\ f < e

\* ------------------------------------------------------------------ C27
OutputsValidated(e) ==
    pc[e] \in {"store", "link_artifacts", "clear", "publish", "returned"}

\* C27: for a step that declares one output the value returned is the value
\* of that output whatever its shape: a tuple of any length, the empty one
\* included, is the one value; there is no check of the number of values, and
\* the value is only checked against the type the output declares.
C27_OneOutputTakesRawReturn ==
    \A e \in Execs :
        (Len(cfg[e].outputs) = 1 /\ EntrypointReturned(e)) =>
            LET fits == IsInstance(return_values[e].type,
                                   cfg[e].outputs[1].resolved_annotation)
            IN  /\ _validate_outputs(return_values[e], cfg[e].outputs) =
                       [error |-> ~fits,
                        outputs |-> IF fits THEN <<return_values[e].type>> ELSE <<>>]
                /\ OutputsValidated(e) => fits
                /\ exc[e] = "StepInterfaceError" => ~fits
                /\ pc[e] = "returned" =>
                       step_runs[e].output_artifacts = <<ArtifactId(e, 1)>>

\* The empty tuple has been stored as the one output of a step, in the
\* second execution of the process or a later one.
C27_Witness ==
    \E e \in Execs :
        /\ e > 1
        /\ pc[e] = "returned"
        /\ Len(cfg[e].outputs) = 1
        /\ return_values[e] = Tuple(<<>>)
        /\ step_runs[e].status = "COMPLETED"
        /\ ArtifactId(e, 1) \in artifact_versions

\* ------------------------------------------------------------------ C28
LogsSettingEvaluated(e) == pc[e] \notin {"idle", "done"}
CacheSettingEvaluated(e) == pc[e] \notin {"idle", "load", "raised", "failed", "done"}

\* C28: the capture of step logs is enabled exactly as the two-level override
\* says: the setting of the step if it is set, else the setting of the
\* pipeline if it is set, else enabled; the same precedence decides the flags
\* for caching, artifact metadata and artifact visualization.
C28_TwoLevelOverride ==
    \A e \in Execs :
        LET TwoLevel(x) ==
                IF x.step # "None" THEN x.step = "True"
                ELSE IF x.pipeline # "None" THEN x.pipeline = "True"
                ELSE TRUE
        IN  /\ LogsSettingEvaluated(e) =>
                   flags[e].step_logging_enabled = TwoLevel(cfg[e].enable_step_logs)
            /\ CacheSettingEvaluated(e) =>
                   flags[e].cache_enabled = TwoLevel(cfg[e].enable_cache)
            /\ OutputsValidated(e) =>
                   /\ flags[e].artifact_metadata_enabled =
                          TwoLevel(cfg[e].enable_artifact_metadata)
                   /\ flags[e].artifact_visualization_enabled =
                          TwoLevel(cfg[e].enable_artifact_visualization)

\* ------------------------------------------------------------------ C29
MaterializerOf(a) == {m.materializer : m \in {x \in materializers : x.artifact = a}}

\* An output that declares materializer classes is stored with the first of
\* them that handles the type of its value.
FirstCandidateStores ==
    \A e \in Execs : \A i \in 1..Len(output_artifacts[e]) :
        LET classes == cfg[e].output_config[i].materializer_source
        IN  classes # <<>> =>
                \E k \in 1..Len(classes) :
                    /\ MaterializerOf(ArtifactId(e, i)) = {classes[k]}
                    /\ Handles(classes[k], DataType(e, i))
                    /\ \A j \in 1..(k - 1) : ~Handles(classes[j], DataType(e, i))

\* Storing such an output leaves the registry as it is.
CandidatesKeepRegistry ==
    \A e \in Execs :
        (/\ Len(output_artifacts'[e]) = Len(output_artifacts[e]) + 1
         /\ cfg[e].output_config[Len(output_artifacts'[e])].materializer_source # <<>>)
            => default_materializer' = default_materializer

\* C29: when an output declares materializer candidates, it is stored with
\* the first candidate, in the order of declaration, that handles the runtime
\* type of the value; the choice depends on that type and on the candidates
\* alone, and the global registry is not consulted.
C29_FirstDeclaredCandidate ==
    []FirstCandidateStores /\ [][CandidatesKeepRegistry]_vars

\* An int has been stored with the class that handles every built-in type,
\* declared before the class for int, in a process whose registry has been
\* given another default materializer by an earlier step.
C29_Witness ==
    \E e \in Execs :
        /\ pc[e] = "returned"
        /\ cfg[e].output_config =
               <<OutputConfig(<<"BuiltInMaterializer", "IntMaterializer">>, "none")>>
        /\ DataType(e, 1) = "int"
        /\ MaterializerOf(ArtifactId(e, 1)) = {"BuiltInMaterializer"}
        /\ default_materializer[cfg[e].process] # DefaultMaterializer

\* ------------------------------------------------------------------ C30
\* C30: an output that declares no materializer candidates is stored with the
\* materializer the global registry gives for the runtime type of its value
\* and its own default materializer, whichever outputs, of this step or of
\* earlier steps of the process, were stored before it.
C30_RegistryChoiceIndependent ==
    \A e \in Execs : \A i \in 1..Len(output_artifacts[e]) :
        LET oc == cfg[e].output_config[i]
            own == IF oc.default_materializer_source # "none"
                   THEN oc.default_materializer_source
                   ELSE DefaultMaterializer
        IN  oc.materializer_source = <<>> =>
                MaterializerOf(ArtifactId(e, i)) =
                    {IF DataType(e, i) \in {"int", "str"} THEN "BuiltInMaterializer"
                     ELSE own}

\* ------------------------------------------------------------------ C31
\* The parts of a derived name, joined as the code joins them.
Composite(pipeline_name, step_name, output_name) ==
    pipeline_name \o "::" \o step_name \o "::" \o output_name

\* While the step that stored it is executing: an artifact version is named
\* by the custom name of its output's artifact config when that has one, else
\* by pipeline::step::output with 'unlisted' for a run without pipeline.
NamedAsConfigured ==
    \A n \in artifact_names :
        LET e == n.artifact.step_run
            ac == cfg[e].outputs[n.artifact.output].artifact_config
            output_name == IF Len(cfg[e].outputs) = 1 THEN "output"
                           ELSE "output_" \o ToString(n.artifact.output - 1)
        IN  pc[e] \notin {"idle", "done"} =>
                n.name = IF ac.name # "" THEN ac.name
                         ELSE Composite(IF cfg[e].pipeline.present
                                        THEN cfg[e].pipeline.name ELSE "unlisted",
                                        cfg[e].name, output_name)

\* The step run that produced an artifact version.
Producer(n) == step_runs[n.artifact.step_run]

\* Two artifact versions without custom names whose steps or pipelines
\* differ have different names.
DerivedNamesDistinct ==
    \A n1, n2 \in artifact_names :
        /\ ~n1.has_custom_name /\ ~n2.has_custom_name
        /\ \/ Producer(n1).name # Producer(n2).name
           \/ Producer(n1).pipeline # Producer(n2).pipeline
        => n1.name # n2.name

\* C31: an output is stored under its custom name when it has one and under
\* pipeline::step::output otherwise ('unlisted' when the run has no
\* pipeline), and outputs of different steps or different pipelines without
\* custom names never share a name.
C31_LogicalName == NamedAsConfigured /\ DerivedNamesDistinct

\* ------------------------------------------------------------------ C32
InExit == run_context.position \in {"runs", "artifact_versions", "artifact"}

\* When __exit__ has ended, no run and no artifact version the context
\* tracked is in the store, and an artifact of theirs is only when it still
\* has a version.
CleanedUp ==
    run_context.position = "done" =>
        /\ run_context.tracked_runs \cap pipeline_runs = {}
        /\ \A v \in run_context.tracked_versions :
               /\ v.id \notin artifact_versions
               /\ v.artifact \in artifacts => VersionsOfArtifact(v.artifact) # {}

\* A step of __exit__ goes on with the items that remain, and takes from the
\* store nothing but items the context tracked.
ExitDeletesTrackedOnly ==
    InExit =>
        /\ run_context'.position \in {"runs", "artifact_versions", "artifact", "done"}
        /\ Len(run_context'.runs) + Len(run_context'.artifact_versions)
               <= Len(run_context.runs) + Len(run_context.artifact_versions)
        /\ pipeline_runs \ pipeline_runs' \subseteq run_context.tracked_runs
        /\ artifact_versions \ artifact_versions' \subseteq
               {v.id : v \in run_context.tracked_versions}
        /\ \A n \in artifacts \ artifacts' :
               /\ n \in {v.artifact : v \in run_context.tracked_versions}
               /\ {x \in artifact_names' : x.name = n} = {}

\* C32: in the cleanup of PipelineRunContext.__exit__ a delete whose target is
\* gone counts as done: the cleanup goes on with the remaining runs, artifact
\* versions and artifacts, never fails, and leaves the store as if each
\* tracked item had been deleted once.
C32_IdempotentCleanup ==
    [](run_context.position # "raised" /\ CleanedUp) /\ [][ExitDeletesTrackedOnly]_vars

\* __exit__ has ended after passing over several deletes that found nothing:
\* of an artifact version tracked twice, and of what the body had deleted.
C32_Witness ==
    /\ run_context.position = "done"
    /\ run_context.not_found >= 3
    /\ Cardinality(run_context.tracked_runs) = 2

\* ------------------------------------------------------------------ C33
\* Binding makes the binder's context the live one of the process, clearing
\* leaves the process without context, whoever's context was live.
BindAndClearActOnTheProcess ==
    \A e \in Execs :
        /\ pc[e] = "bind" /\ pc'[e] # "bind" => stepContext'[cfg[e].process] = e
        /\ pc[e] = "clear" /\ pc'[e] # "clear" => stepContext'[cfg[e].process] = 0

\* C33: executions of run that interleave in one process share the
\* StepContext singleton: a bind replaces, a clear removes, the context of the
\* other execution, so that a step runs without context or with the context
\* of the other step run.
C33_SharedStepContext == [][BindAndClearActOnTheProcess]_vars

\* Of two executions in one process, one has called its entrypoint with the
\* other's context live, and the other has failed for lack of a context.
C33_Witness ==
    \E e, f \in Execs :
        /\ e # f
        /\ cfg[e].process = cfg[f].process
        /\ Event("entrypoint", "other context") \in Range(trace[e])
        /\ exc[f] = "RuntimeError"

\* ------------------------------------------------------------------ C34
RunEnded(e) == pc[e] \in {"returned", "raised", "failed"}

\* At most one hook is called, and at most once.
AtMostOneHook ==
    \A e \in Execs : Count(e, "failure_hook") + Count(e, "success_hook") <= 1

\* The failure hook is called when, and only when, the entrypoint raised and
\* a failure hook is declared.
FailureHookWhenEntrypointRaised ==
    \A e \in Execs :
        RunEnded(e) =>
            (Count(e, "failure_hook") = 1
                <=> EntrypointRaised(e) /\ cfg[e].failure_hook_source)

\* The success hook is called when, and only when, the entrypoint returned
\* and a success hook is declared.
SuccessHookWhenEntrypointReturned ==
    \A e \in Execs :
        RunEnded(e) =>
            (Count(e, "success_hook") = 1
                <=> EntrypointReturned(e) /\ cfg[e].success_hook_source)

\* C34: an execution of run calls at most one hook, at most once: the failure
\* hook exactly when the entrypoint raised and one is declared, the success
\* hook exactly when the entrypoint returned and one is declared; a failure
\* before the entrypoint calls neither.
C34_OneHookPerOutcome ==
    /\ AtMostOneHook
    /\ FailureHookWhenEntrypointRaised
    /\ SuccessHookWhenEntrypointReturned

\* ------------------------------------------------------------------ C35
\* Every declared output of e has been validated and stored.
OutputsStored(e) ==
    /\ pc[e] \in {"store", "link_artifacts", "clear", "publish", "returned"}
    /\ Len(output_artifacts[e]) = Len(cfg[e].outputs)

\* C35: the success hook is called only after the outputs of the step have
\* been validated and stored, so only in executions that end COMPLETED: an
\* execution that fails in validating or storing its outputs has not called it.
C35_SuccessHookAfterOutputs ==
    \A e \in Execs :
        /\ Count(e, "success_hook") > 0 => OutputsStored(e)
        /\ RunRaised(e) /\ exc[e] \in {"StepInterfaceError", "StoreError"}
               => Count(e, "success_hook") = 0

\* ------------------------------------------------------------------ C36
\* The step_failed flags cleanup_step_run was called with.
CleanupFlags(e) ==
    {trace[e][k].arg : k \in {j \in DOMAIN trace[e] : trace[e][j].op = "cleanup_step_run"}}

\* C36: an execution that called the entrypoint calls cleanup_step_run
\* exactly once, with step_failed true exactly when the execution ends by
\* raising.
C36_CleanupOnceWithOutcome ==
    \A e \in Execs :
        RunEnded(e) /\ EntrypointCalled(e) =>
            /\ Count(e, "cleanup_step_run") = 1
            /\ "failed" \in CleanupFlags(e) <=> RunRaised(e)

\* ------------------------------------------------------------------ C37
\* The links of pipeline run r to versions of model m.
RunLinksTo(links, r, m) ==
    {l \in BagToSet(links) : l.pipeline_run = r /\ l.model_version.model = m}

\* From the call of the entrypoint on, the run is linked to the version of
\* the model the step is bound to, also when the entrypoint has raised.
ContextLinkedBeforeEntrypoint ==
    \A e \in Execs :
        /\ cfg[e].model # NoModel
        /\ pc[e] = "entrypoint" \/ EntrypointCalled(e)
        => RunLinksTo(run_links, cfg[e].pipeline_run, cfg[e].model.name) # {}

\* A link to a version of another model than the step's (that of an output's
\* artifact config, that of an external artifact) is created by an execution
\* that has stored all its outputs and has not failed.
DerivedLinksAfterStoring ==
    \A l \in BagToSet(run_links') \ BagToSet(run_links) :
        \E e \in Execs :
            /\ cfg[e].pipeline_run = l.pipeline_run
            /\ \/ /\ pc[e] = "link_context"
                  /\ l.model_version.model = cfg[e].model.name
               \/ /\ pc[e] = "link_artifacts"
                  /\ Len(output_artifacts[e]) = Len(cfg[e].outputs)
                  /\ output_artifacts[e] \in Seq(artifact_versions)
                  /\ ~step_failed[e] /\ exc[e] = "none"

\* An execution that has raised has linked its run to the step's model only.
FailedRunsHaveContextLinkOnly ==
    \A e \in Execs :
        RunRaised(e) =>
            \A l \in BagToSet(run_links) :
                l.pipeline_run = cfg[e].pipeline_run
                    => l.model_version.model = cfg[e].model.name

\* C37: the pipeline run is linked to the model version of the step's own
\* binding before the entrypoint is called, so also when the entrypoint
\* raises; the links that come from output artifacts and external input
\* artifacts are created only by executions that stored all their outputs.
C37_ContextLinkFirst ==
    /\ [](ContextLinkedBeforeEntrypoint /\ FailedRunsHaveContextLinkOnly)
    /\ [][DerivedLinksAfterStoring]_vars

\* One execution has raised in its entrypoint and left its run linked to the
\* step's model; another one stored its output and linked its run to the
\* model of the output as well.
C37_Witness ==
    \E e \in Execs :
        /\ EntrypointRaised(e) /\ pc[e] = "failed"
        /\ RunLinksTo(run_links, cfg[e].pipeline_run, "foo") # {}
        /\ RunLinksTo(run_links, cfg[e].pipeline_run, "bar") = {}
        /\ \E r \in Runs : r # cfg[e].pipeline_run /\ RunLinksTo(run_links, r, "bar") # {}

\* ------------------------------------------------------------------ C38
\* execute has ended with the StepInterfaceError of its sequence, arity or
\* type check.
ExecutorValidationFailed(e) == pc[e] = "raised" /\ exc[e] = "StepInterfaceError"

\* C38: StepExecutor.execute is all-or-nothing on validation: when a check of
\* the return value fails, no output has been written, no artifact has been
\* registered and the step run has not been updated; the step run is only
\* COMPLETED once every output was checked, written and registered.
C38_ExecutorAllOrNothing ==
    \A e \in Execs :
        /\ ExecutorValidationFailed(e) =>
               /\ WrittenBy(e) = {}
               /\ ArtifactsOf(e) = {}
               /\ step_runs[e].status = "RUNNING"
               /\ step_runs[e].output_artifacts = <<>>
        /\ step_runs[e].status = "COMPLETED" =>
               /\ Cardinality(WrittenBy(e)) = Len(cfg[e].outputs)
               /\ Cardinality(ArtifactsOf(e)) = Len(cfg[e].outputs)
               /\ \A i \in 1..Len(cfg[e].outputs) :
                      IsInstance(return_values[e].items[i],
                                 cfg[e].outputs[i].resolved_annotation)

\* ------------------------------------------------------------------ C39
\* The token is signed with the server's key, has not expired, and its
\* subject is the id of an active user of the store.
TokenOfActiveUser(token) ==
    /\ token.key = JwtSecretKey /\ ~token.expired
    /\ \E u \in users : token.sub = UuidText(u.id) /\ u.active

\* C39: verify_access_token returns a user only when the token decodes to a
\* user id, a user of that id is in the store and is active, and then that
\* user; for an invalid token, a missing subject, an unknown or an inactive
\* user it returns None, and it never raises.
C39_VerifyAccessToken ==
    call.op = "verify_access_token" /\ result # NoResult =>
        /\ result.returned
        /\ IF TokenOfActiveUser(call.token)
           THEN /\ result.value \in users
                /\ result.value.active
                /\ UuidText(result.value.id) = call.token.sub
           ELSE result.value = NoUser

\* The token of an active user has been verified and the user returned, in
\* a store that also holds an inactive user.
C39_Witness ==
    /\ call.op = "verify_access_token"
    /\ result # NoResult
    /\ TokenOfActiveUser(call.token)
    /\ result.value \in users
    /\ \E u \in users : ~u.active

\* ------------------------------------------------------------------ C40
\* C40: a RoleAssignmentModel is constructed exactly when one and only one of
\* user_id and team_id is set; with both or neither the validation fails
\* with a ValueError.
C40_SingleEntity ==
    call.op = "RoleAssignmentModel" /\ result # NoResult =>
        LET user_set == call.values.user_id # 0
            team_set == call.values.team_id # 0
        IN  IF user_set # team_set
            THEN result = Returned(call.values)
            ELSE result = Raised("ValueError")

\* The validation has rejected a role assignment with both a user and a team.
C40_Witness ==
    /\ call.op = "RoleAssignmentModel"
    /\ call.values.user_id # 0 /\ call.values.team_id # 0
    /\ result = Raised("ValueError")

====
